---- MODULE Spec2Model ----
(***************************************************************************)
(* Verification model of the MarkerML compiler pipeline (rchuk/markerml):  *)
(* the hand-written lexer with its interpolation mode stack, the token     *)
(* parser, the AST validator and the IR generator.                         *)
(*                                                                         *)
(* Characters are one-character strings, strings are sequences of          *)
(* characters, Option<T> is a sequence of length 0 (None) or 1 (Some).     *)
(***************************************************************************)
EXTENDS Integers, Sequences, FiniteSets, TLC

VARIABLES
    src,                \* the source text handed to Lexer::new
    chars,              \* Lexer.chars: the characters not yet consumed
    line,               \* Lexer.line
    column,             \* Lexer.column
    interpolation_mode, \* Lexer.interpolation_mode (top of stack = last element)
    tokens,             \* the `tokens` vector built by Lexer::lex
    tok_at,             \* history: source offset at which each token's iteration began
    phase,              \* position in the pipeline
    parsed,             \* result of the token parser
    ast,                \* the AST handed to the validator and to the IR generator
    v_idx,              \* Validator::validate_module: index of the next item
    v_result,           \* Validator::validate result so far
    g_idx,              \* IrGenerator::generate_module: index of the next item
    g_items,            \* IR items collected so far
    g_result,           \* IrGenerator::generate result so far
    span_acc,           \* the span being folded: the a of a |= b
    union,              \* the result of the last a | b
    folded,             \* history: the spans folded into acc so far
    file,               \* the watched file: a version and whether it compiles
    events,             \* watch_file: notifications the watcher has sent, not yet received
    watch_pc,           \* watch_file: position of the task
    watch_res,          \* watch_file: res of update_code between send and store
    updates,            \* the channel AppState.updates: messages sent, not yet received
    current,            \* AppState.current
    socket_pc,          \* handle_socket: position of the task of each client
    received            \* history: the messages sent on each client's socket

lexvars == <<src, chars, line, column, interpolation_mode, tokens, tok_at>>
astvars == <<ast, v_idx, v_result, g_idx, g_items, g_result>>
pipelinevars == <<src, chars, line, column, interpolation_mode, tokens, tok_at,
                  phase, parsed, ast, v_idx, v_result, g_idx, g_items, g_result>>
spanvars == <<span_acc, union, folded>>
servervars == <<file, events, watch_pc, watch_res, updates, current, socket_pc, received>>
vars == <<pipelinevars, spanvars, servervars>>

(***************************************************************************)
(* Bounds of the model.                                                    *)
(***************************************************************************)
MaxNestLen == 7
MaxLineLen == 5
MaxMiscLen == 4
MaxCodeLen == 5
MaxBracketLen == 4

None == <<>>
Some(x) == <<x>>
NoChar == "EOF"

Last(s) == s[Len(s)]

(***************************************************************************)
(* The parts of the system that a specification leaves at rest.            *)
(***************************************************************************)
MaxClients == 2

Clients == 1..MaxClients

\* CodeUpdateMessage::Empty
Empty == [kind |-> "Empty", code |-> 0]

PipelineIdle ==
    /\ src = <<>> /\ chars = <<>> /\ line = 1 /\ column = 1
    /\ interpolation_mode = <<>> /\ tokens = <<>> /\ tok_at = <<>>
    /\ phase = "idle" /\ parsed = FALSE /\ ast = [items |-> <<>>]
    /\ v_idx = 1 /\ v_result = None
    /\ g_idx = 1 /\ g_items = <<>> /\ g_result = None

SpanIdle ==
    LET origin == [line |-> 1, column |-> 1]
    IN  /\ span_acc = [start |-> origin, end |-> origin]
        /\ union = [start |-> origin, end |-> origin]
        /\ folded = <<>>

ServerIdle ==
    /\ file = [version |-> 0, valid |-> TRUE]
    /\ events = 0
    /\ watch_pc = "idle"
    /\ watch_res = Empty
    /\ updates = <<>>
    /\ current = Empty
    /\ socket_pc = [c \in Clients |-> "closed"]
    /\ received = [c \in Clients |-> <<>>]
Front(s) == SubSeq(s, 1, Len(s) - 1)

(***************************************************************************)
(* Lexer: character classes                                                *)
(***************************************************************************)
Letters == {"a", "b", "c", "d", "e", "f", "g", "i", "l", "m", "n", "o", "p", "q",
            "r", "s", "t", "u", "x", "y"}
Digits == {"0", "1", "2", "3", "4", "5", "6", "7", "8", "9"}

is_identifier_head(ch) == ch \in Letters \cup {"_"}
is_identifier_tail(ch) == ch \in Letters \cup Digits \cup {"_"}
is_integer_head(ch) == ch \in Digits \cup {"-"}
is_integer_tail(ch) == ch \in Digits
is_newline(ch) == ch = "\n" \/ ch = "\r"
is_whitespace_except_newline(ch) == ch = " " \/ ch = "\t"

(***************************************************************************)
(* Lexer: cursor primitives.  A lexer state s is a record                  *)
(* [chars, line, column, interpolation_mode].                              *)
(***************************************************************************)
peek(s) == IF s.chars = <<>> THEN NoChar ELSE Head(s.chars)

next(s) ==
    IF s.chars = <<>> THEN s
    ELSE [s EXCEPT !.chars = Tail(@), !.column = @ + 1]

skip(s) == next(s)

position(s) == [line |-> s.line, column |-> s.column]

span(s, start) == [start |-> start, end |-> position(s)]

advance_line(s) == [s EXCEPT !.line = @ + 1, !.column = 1]

consume_if_eq(s, ch) == IF peek(s) = ch THEN skip(s) ELSE s

try_consume_whitespace(s, ch) ==
    IF is_whitespace_except_newline(ch)
    THEN [ok |-> TRUE, s |-> skip(s)]
    ELSE [ok |-> FALSE, s |-> s]

try_consume_line_ending(s, ch) ==
    IF ch = "\r" THEN [ok |-> TRUE, s |-> advance_line(consume_if_eq(skip(s), "\n"))]
    ELSE IF ch = "\n" THEN [ok |-> TRUE, s |-> advance_line(skip(s))]
    ELSE [ok |-> FALSE, s |-> s]

push_mode(s, m) == [s EXCEPT !.interpolation_mode = Append(@, m)]
pop_mode(s) ==
    [s EXCEPT !.interpolation_mode = IF @ = <<>> THEN <<>> ELSE Front(@)]

Mode(m, kind) == [mode |-> m, kind |-> kind]

(***************************************************************************)
(* Lexer: string / text literal sub-lexer                                  *)
(***************************************************************************)
RECURSIVE skip_whitespaces(_)
skip_whitespaces(s) ==
    IF s.chars # <<>> /\ is_whitespace_except_newline(Head(s.chars))
    THEN skip_whitespaces(skip(s))
    ELSE s

RECURSIVE consume_text_loop(_, _, _, _)
RECURSIVE consume_text_loop_without_escapes(_, _, _, _)
\* variant: a backslash is an ordinary character
consume_text_loop_without_escapes(s, text, delimiter, interpolation_kind) ==
    IF s.chars = <<>>
    THEN [s |-> s, content |-> text, is_closed |-> FALSE, ret |-> "eof"]
    ELSE LET ch == Head(s.chars)
             s1 == next(s)
         IN  IF ch = delimiter
             THEN [s |-> pop_mode(s1), content |-> text, is_closed |-> TRUE,
                   ret |-> "delimiter"]
             ELSE IF is_newline(ch)
             THEN LET s2 == skip_whitespaces(try_consume_line_ending(s1, ch).s)
                      p == peek(s2)
                  IN  consume_text_loop_without_escapes(
                          s2,
                          IF p # NoChar /\ p # delimiter /\ ~is_newline(p)
                          THEN Append(text, " ") ELSE text,
                          delimiter, interpolation_kind)
             ELSE IF ch = "\\"
             THEN consume_text_loop_without_escapes(s1, Append(text, ch),
                                                    delimiter, interpolation_kind)
             ELSE IF ch = "$" /\ peek(s1) = "{"
             THEN [s |-> push_mode(s1, Mode("Start", interpolation_kind)),
                   content |-> text, is_closed |-> TRUE, ret |-> "interpolation"]
             ELSE consume_text_loop_without_escapes(s1, Append(text, ch),
                                    delimiter, interpolation_kind)

consume_text_loop(s, text, delimiter, interpolation_kind) ==
    IF s.chars = <<>>
    THEN [s |-> s, content |-> text, is_closed |-> FALSE, ret |-> "eof"]
    ELSE LET ch == Head(s.chars)
             s1 == next(s)
         IN  IF ch = delimiter
             THEN [s |-> pop_mode(s1), content |-> text, is_closed |-> TRUE,
                   ret |-> "delimiter"]
             ELSE IF is_newline(ch)
             THEN LET s2 == skip_whitespaces(try_consume_line_ending(s1, ch).s)
                      p == peek(s2)
                  IN  consume_text_loop(
                          s2,
                          IF p # NoChar /\ p # delimiter /\ ~is_newline(p)
                          THEN Append(text, " ") ELSE text,
                          delimiter, interpolation_kind)
             ELSE IF ch = "\\"
             THEN IF peek(s1) = "$" \/ peek(s1) = delimiter
                  THEN consume_text_loop(skip(s1), Append(text, peek(s1)),
                                         delimiter, interpolation_kind)
                  ELSE consume_text_loop(s1, Append(text, ch),
                                         delimiter, interpolation_kind)
             ELSE IF ch = "$" /\ peek(s1) = "{"
             THEN [s |-> push_mode(s1, Mode("Start", interpolation_kind)),
                   content |-> text, is_closed |-> TRUE, ret |-> "interpolation"]
             ELSE consume_text_loop(s1, Append(text, ch),
                                    delimiter, interpolation_kind)

consume_text_until(s, delimiter, interpolation_kind) ==
    consume_text_loop(s, <<>>, delimiter, interpolation_kind)

consume_string_literal(s) ==
    LET r == consume_text_until(s, "\"", "String")
    IN  [s |-> r.s, ret |-> r.ret,
         token |-> [kind |-> "StringLiteral", value |-> r.content,
                    is_closed |-> r.is_closed]]

consume_text(s) ==
    LET r == consume_text_until(s, ")", "Text")
    IN  [s |-> r.s, ret |-> r.ret,
         token |-> [kind |-> "Text", value |-> r.content,
                    is_closed |-> r.is_closed]]

(***************************************************************************)
(* Lexer: integer literals.  i64::from_str is modelled on the digit string:*)
(* the value is kept as sign + digits without leading zeros, and the       *)
(* conversion fails for a lone "-" and for a magnitude outside i64.        *)
(***************************************************************************)
DigitValue == ("0" :> 0) @@ ("1" :> 1) @@ ("2" :> 2) @@ ("3" :> 3) @@ ("4" :> 4) @@
              ("5" :> 5) @@ ("6" :> 6) @@ ("7" :> 7) @@ ("8" :> 8) @@ ("9" :> 9)

I64MaxDigits == <<"9", "2", "2", "3", "3", "7", "2", "0", "3", "6", "8", "5", "4",
                  "7", "7", "5", "8", "0", "7">>
I64MinDigits == <<"9", "2", "2", "3", "3", "7", "2", "0", "3", "6", "8", "5", "4",
                  "7", "7", "5", "8", "0", "8">>

RECURSIVE strip_zeros(_)
strip_zeros(ds) ==
    IF ds # <<>> /\ Head(ds) = "0" THEN strip_zeros(Tail(ds)) ELSE ds

RECURSIVE digits_le(_, _)
digits_le(a, b) ==
    IF a = <<>> THEN TRUE
    ELSE IF DigitValue[Head(a)] < DigitValue[Head(b)] THEN TRUE
    ELSE IF DigitValue[Head(a)] > DigitValue[Head(b)] THEN FALSE
    ELSE digits_le(Tail(a), Tail(b))

\* variant: a digit run of any size is a number
i64_from_str_unbounded(content) ==
    IF content = <<>> \/ content = <<"-">> THEN [ok |-> FALSE, value |-> <<>>]
    ELSE [ok |-> TRUE, value |-> content]

i64_from_str(content) ==
    LET neg == content # <<>> /\ Head(content) = "-"
        ds == IF neg THEN Tail(content) ELSE content
        mag == strip_zeros(ds)
        lim == IF neg THEN I64MinDigits ELSE I64MaxDigits
    IN  IF ds = <<>> THEN [ok |-> FALSE, value |-> <<>>]
        ELSE IF Len(mag) > Len(lim) \/ (Len(mag) = Len(lim) /\ ~digits_le(mag, lim))
        THEN [ok |-> FALSE, value |-> <<>>]
        ELSE IF mag = <<>> THEN [ok |-> TRUE, value |-> <<"0">>]
        ELSE [ok |-> TRUE, value |-> IF neg THEN <<"-">> \o mag ELSE mag]

RECURSIVE consume_while_integer_tail(_, _)
consume_while_integer_tail(s, content) ==
    IF s.chars # <<>> /\ is_integer_tail(Head(s.chars))
    THEN consume_while_integer_tail(skip(s), Append(content, Head(s.chars)))
    ELSE [s |-> s, content |-> content]

NoToken == [kind |-> "None", value |-> <<>>, is_closed |-> TRUE]
Tok(kind, value) == [kind |-> kind, value |-> value, is_closed |-> TRUE]
InvalidToken == Tok("Invalid", <<>>)

try_consume_integer_literal(s) ==
    IF s.chars = <<>> \/ ~is_integer_head(peek(s))
    THEN [ok |-> FALSE, s |-> s, token |-> NoToken]
    ELSE LET r == consume_while_integer_tail(skip(s), <<peek(s)>>)
             n == i64_from_str(r.content)
         IN  [ok |-> TRUE, s |-> r.s,
              token |-> IF n.ok THEN Tok("IntegerLiteral", n.value) ELSE InvalidToken]

(***************************************************************************)
(* Lexer: identifiers, keywords, type names, booleans                      *)
(***************************************************************************)
RECURSIVE consume_while_identifier_tail(_, _)
consume_while_identifier_tail(s, content) ==
    IF s.chars # <<>> /\ is_identifier_tail(Head(s.chars))
    THEN consume_while_identifier_tail(skip(s), Append(content, Head(s.chars)))
    ELSE [s |-> s, content |-> content]

try_consume_identifier_string(s) ==
    IF s.chars = <<>> \/ ~is_identifier_head(peek(s))
    THEN [ok |-> FALSE, s |-> s, content |-> <<>>]
    ELSE LET r == consume_while_identifier_tail(skip(s), <<peek(s)>>)
         IN  [ok |-> TRUE, s |-> r.s, content |-> r.content]

get_type(identifier) ==
    IF identifier = <<"s", "t", "r", "i", "n", "g">> THEN Some(<<"String">>)
    ELSE IF identifier = <<"i", "n", "t", "e", "g", "e", "r">> THEN Some(<<"Integer">>)
    ELSE IF identifier = <<"b", "o", "o", "l">> THEN Some(<<"Bool">>)
    ELSE IF identifier = <<"s", "l", "o", "t">> THEN Some(<<"Slot">>)
    ELSE None

get_keyword(identifier) ==
    IF identifier = <<"c", "o", "m", "p", "o", "n", "e", "n", "t">> THEN Some(<<"Component">>)
    ELSE IF identifier = <<"d", "e", "f", "a", "u", "l", "t">> THEN Some(<<"Default">>)
    ELSE IF identifier = <<"t", "e", "x", "t">> THEN Some(<<"Text">>)
    ELSE None

get_boolean_literal(identifier) ==
    IF identifier = <<"t", "r", "u", "e">> THEN Some(<<"true">>)
    ELSE IF identifier = <<"f", "a", "l", "s", "e">> THEN Some(<<"false">>)
    ELSE None

try_consume_identifier(s) ==
    LET r == try_consume_identifier_string(s)
    IN  IF ~r.ok THEN [ok |-> FALSE, s |-> s, token |-> NoToken]
        ELSE [ok |-> TRUE, s |-> r.s,
              token |->
                IF get_type(r.content) # None
                THEN Tok("Type", get_type(r.content)[1])
                ELSE IF get_keyword(r.content) # None
                THEN Tok("Keyword", get_keyword(r.content)[1])
                ELSE IF get_boolean_literal(r.content) # None
                THEN Tok("BooleanLiteral", get_boolean_literal(r.content)[1])
                ELSE Tok("Identifier", r.content)]

(***************************************************************************)
(* Lexer: punctuators and comments                                         *)
(***************************************************************************)
PunctuatorChars == {"[", "]", "{", "}", ",", ":", "=", "$", "@", "#"}

punctuator_of(ch) ==
    CASE ch = "[" -> <<"LeftSquareBracket">>
      [] ch = "]" -> <<"RightSquareBracket">>
      [] ch = "{" -> <<"LeftCurlyBracket">>
      [] ch = "}" -> <<"RightCurlyBracket">>
      [] ch = "," -> <<"Comma">>
      [] ch = ":" -> <<"Colon">>
      [] ch = "=" -> <<"Equals">>
      [] ch = "$" -> <<"Dollar">>
      [] ch = "@" -> <<"At">>
      [] ch = "#" -> <<"Hash">>

Punct(name) == Tok("Punctuator", <<name>>)

try_consume_punctuator(s) ==
    IF s.chars = <<>> \/ peek(s) \notin PunctuatorChars
    THEN [ok |-> FALSE, s |-> s, token |-> NoToken]
    ELSE [ok |-> TRUE, s |-> skip(s), token |-> Tok("Punctuator", punctuator_of(peek(s)))]

RECURSIVE skip_comment_body(_, _)
RECURSIVE skip_comment_body_to_line_end(_, _)
\* variant: only a line ending ends the comment
skip_comment_body_to_line_end(s, delimiter) ==
    IF s.chars = <<>> \/ is_newline(peek(s))
    THEN s
    ELSE skip_comment_body_to_line_end(skip(s), delimiter)

skip_comment_body(s, delimiter) ==
    IF s.chars = <<>> \/ is_newline(peek(s)) \/ Some(peek(s)) = delimiter
    THEN s
    ELSE skip_comment_body(skip(s), delimiter)

\* matched = FALSE is None, emit = <<>> is Some(None), emit = <<t>> is Some(Some(t))
try_consume_comment(s, ch) ==
    IF ch # "/" THEN [matched |-> FALSE, s |-> s, emit |-> <<>>]
    ELSE LET delimiter ==
                 IF s.interpolation_mode # <<>>
                    /\ Last(s.interpolation_mode).mode = "Interpolation"
                 THEN Some("}") ELSE None
             s1 == skip(s)
         IN  IF peek(s1) = "/"
             THEN [matched |-> TRUE, s |-> skip_comment_body(skip(s1), delimiter),
                   emit |-> <<>>]
             ELSE [matched |-> TRUE, s |-> s1, emit |-> <<InvalidToken>>]

(***************************************************************************)
(* Lexer: one iteration of the loop of Lexer::lex, by mode.                *)
(* Each handler returns the new lexer state and the tokens it added, every *)
(* token with the span add_token gave it.                                  *)
(***************************************************************************)
Spanned(tok, s, start) ==
    [kind |-> tok.kind, value |-> tok.value, is_closed |-> tok.is_closed,
     span |-> span(s, start)]

Emit(s, start, toks, ret) ==
    [s |-> s, tokens |-> [i \in 1..Len(toks) |-> Spanned(toks[i], s, start)],
     ret |-> ret]

lex_default(s, ch) ==
    LET start == position(s)
        ws == try_consume_whitespace(s, ch)
        le == try_consume_line_ending(s, ch)
        cm == try_consume_comment(s, ch)
        int == try_consume_integer_literal(s)
        pn == try_consume_punctuator(s)
        id == try_consume_identifier(s)
    IN  IF ws.ok THEN Emit(ws.s, start, <<>>, "none")
        ELSE IF le.ok THEN Emit(le.s, start, <<>>, "none")
        ELSE IF cm.matched THEN Emit(cm.s, start, cm.emit, "none")
        ELSE IF ch = "("
        THEN LET r == consume_text(skip(s)) IN Emit(r.s, start, <<r.token>>, r.ret)
        ELSE IF ch = "\""
        THEN LET r == consume_string_literal(skip(s))
             IN  Emit(r.s, start, <<r.token>>, r.ret)
        ELSE IF int.ok THEN Emit(int.s, start, <<int.token>>, "none")
        ELSE IF pn.ok THEN Emit(pn.s, start, <<pn.token>>, "none")
        ELSE IF id.ok THEN Emit(id.s, start, <<id.token>>, "none")
        ELSE Emit(skip(s), start, <<InvalidToken>>, "none")

replace_top(s, m) == push_mode(pop_mode(s), m)

\* variant: the `{` is left unconsumed
lex_interpolation_start_without_skip(s, kind) ==
    LET start == position(s)
    IN  [s |-> replace_top(s, Mode("Interpolation", kind)),
         tokens |-> <<Spanned(Punct("Dollar"), s, start),
                      Spanned(Punct("LeftCurlyBracket"), s, start)>>,
         ret |-> "none"]

lex_interpolation_start(s, kind) ==
    LET start == position(s)
        s1 == skip(s)
    IN  [s |-> replace_top(s1, Mode("Interpolation", kind)),
         tokens |-> <<Spanned(Punct("Dollar"), s, start),
                      Spanned(Punct("LeftCurlyBracket"), s1, start)>>,
         ret |-> "none"]

lex_interpolation(s, kind, ch) ==
    IF ch = "}"
    THEN LET s1 == skip(s)
         IN  [s |-> replace_top(s1, Mode("Literal", kind)),
              tokens |-> <<Spanned(Punct("RightCurlyBracket"), s1, position(s))>>,
              ret |-> "none"]
    ELSE lex_default(s, ch)

lex_interpolation_literal(s, kind) ==
    LET r == IF kind = "String" THEN consume_string_literal(s) ELSE consume_text(s)
    IN  Emit(r.s, position(s), <<r.token>>, r.ret)

(***************************************************************************)
(* Lexer::lex as a state machine: one action per mode of the main loop.    *)
(***************************************************************************)
LexerState ==
    [chars |-> chars, line |-> line, column |-> column,
     interpolation_mode |-> interpolation_mode]

TopMode == IF interpolation_mode = <<>> THEN "Default" ELSE Last(interpolation_mode).mode

Offset == Len(src) - Len(chars)

Apply(r) ==
    /\ chars' = r.s.chars
    /\ line' = r.s.line
    /\ column' = r.s.column
    /\ interpolation_mode' = r.s.interpolation_mode
    /\ tokens' = tokens \o r.tokens
    /\ tok_at' = tok_at \o [i \in 1..Len(r.tokens) |-> Offset]
    /\ UNCHANGED <<src, phase, parsed, ast, v_idx, v_result, g_idx, g_items, g_result>>
    /\ UNCHANGED <<spanvars, servervars>>

\* What the current iteration of the loop of Lexer::lex does (chars # <<>>).
lex_iteration(s) ==
    LET ch == peek(s)
        top == IF s.interpolation_mode = <<>> THEN Mode("Default", "None")
               ELSE Last(s.interpolation_mode)
    IN  CASE top.mode = "Start" -> lex_interpolation_start(s, top.kind)
          [] top.mode = "Interpolation" -> lex_interpolation(s, top.kind, ch)
          [] top.mode = "Literal" -> lex_interpolation_literal(s, top.kind)
          [] OTHER -> lex_default(s, ch)

LexDefault ==
    /\ phase = "lex" /\ chars # <<>> /\ TopMode = "Default"
    /\ Apply(lex_iteration(LexerState))

LexInterpolationStart ==
    /\ phase = "lex" /\ chars # <<>> /\ TopMode = "Start"
    /\ Apply(lex_iteration(LexerState))

LexInterpolation ==
    /\ phase = "lex" /\ chars # <<>> /\ TopMode = "Interpolation"
    /\ Apply(lex_iteration(LexerState))

LexInterpolationLiteral ==
    /\ phase = "lex" /\ chars # <<>> /\ TopMode = "Literal"
    /\ Apply(lex_iteration(LexerState))

LexStep == LexDefault \/ LexInterpolationStart \/ LexInterpolation \/ LexInterpolationLiteral

(***************************************************************************)
(* Sources: every string, up to a length, over each of four small          *)
(* alphabets (nesting, line endings, stray characters, component syntax).  *)
(***************************************************************************)
Strs(A, n) == UNION {[1..k -> A] : k \in 0..n}

NestChars == {"\"", "$", "{", "}"}
LineChars == {"\"", "\n", "\r", " ", "a"}
MiscChars == {"\"", "(", "$", "{", "}", "%", "/", "-", "1", "\\", ")"}
CodeChars == {"a", "(", ")", "{", "}"}
BracketChars == {"a", "[", "]", ","}

\* string and text literals put together from up to MaxPieces pieces, a
\* piece being a plain character or an interpolation
MaxPieces == 3

InterpPieces == {<<"x">>, <<"$", "{", "a", "}">>, <<"$", "{", "b", "}">>}

PieceLists == UNION {[1..k -> InterpPieces] : k \in 0..MaxPieces}

RECURSIVE Concat(_)
Concat(l) == IF l = <<>> THEN <<>> ELSE l[1] \o Concat(Tail(l))

StringSource(l) == <<"a", "[", "\"">> \o Concat(l) \o <<"\"", "]">>

TextSource(l) == <<"a", "(">> \o Concat(l) \o <<")">>

InterpSources == {StringSource(l) : l \in PieceLists} \cup {TextSource(l) : l \in PieceLists}

\* a named property with each form of value, the interpolation form included
PropertyValues == {<<"$", "{", "q", "}">>, <<"q">>, <<"1">>, <<"\"", "x", "\"">>}

NamedPropertySource(v) == <<"a", "[", "p", "=">> \o v \o <<"]">>

NamedPropertySources ==
    {NamedPropertySource(v) \o tail : v \in PropertyValues, tail \in {<<>>, <<" ", "{", "}">>}}

\* integer literals around the ends of the signed 64-bit range: the first
\* 18 digits of 2^63 - 1 followed by any digit, with or without a sign and a
\* leading zero, and the same with one more digit
IntegerRun(sign, zeros, d) == sign \o zeros \o SubSeq(I64MaxDigits, 1, 18) \o <<d>>

LongIntegerRun(sign, d) == sign \o I64MaxDigits \o <<d>>

Signs == {<<>>, <<"-">>}

OutOfRangeRuns ==
    {IntegerRun(<<>>, z, d) : z \in {<<>>, <<"0">>}, d \in {"8", "9"}}
      \cup {IntegerRun(<<"-">>, z, "9") : z \in {<<>>, <<"0">>}}
      \cup {LongIntegerRun(sign, d) : sign \in Signs, d \in Digits}

IntegerRuns ==
    {IntegerRun(sign, z, d) : sign \in Signs, z \in {<<>>, <<"0">>}, d \in Digits}
      \cup {LongIntegerRun(sign, d) : sign \in Signs, d \in Digits}

DefaultValueSource(run) == <<"a", "[">> \o run \o <<"]">>

IntegerSources == IntegerRuns \cup {DefaultValueSource(run) : run \in IntegerRuns}

\* one string or text literal put together from up to MaxEscapes pieces: an
\* escaped $, an escaped terminator, a backslash before another character,
\* a plain character, an opening brace
MaxEscapes == 3

EscapePieces(term) ==
    {<<"\\", "$">>, <<"\\", term>>, <<"\\", "x">>, <<"x">>, <<"{">>}

EscapeLists(term) == UNION {[1..k -> EscapePieces(term)] : k \in 1..MaxEscapes}

EscapeSource(term, l) ==
    <<IF term = ")" THEN "(" ELSE term>> \o Concat(l) \o <<term>>

Terminators == {"\"", ")"}

EscapeSources ==
    {EscapeSource(term, l) : term \in Terminators,
                             l \in EscapeLists("\"") \cup EscapeLists(")")}

\* a // comment of up to MaxCommentLen characters, at top level and inside
\* the interpolation of a string, ended by the source, a line ending or }
MaxCommentLen == 2

CommentChars == {"{", "}", "\"", "(", "$", "x"}

CommentBodies == Strs(CommentChars, MaxCommentLen)

CommentTails == {<<>>, <<"\n", "a">>}

InterpolationCommentTails == {<<"}", "\"">>, <<"\n", "}", "\"">>}

CommentSource(body, tail) == <<"/", "/">> \o body \o tail

InterpolationCommentSource(body, tail) ==
    <<"\"", "$", "{", "a", "/", "/">> \o body \o tail

CommentSources ==
    {CommentSource(body, tail) : body \in CommentBodies, tail \in CommentTails}
      \cup {InterpolationCommentSource(body, tail) :
               body \in CommentBodies, tail \in InterpolationCommentTails}

\* a property list whose first item is a flag, a key with a value, or an
\* integer, boolean or string, followed by nothing, a named property, a
\* trailing comma, or an item that no comma separates
FlagItem == <<"x">>

KeyValueItem == <<"x", "=", "1">>

DefaultItems == {<<"1">>, <<"t", "r", "u", "e">>, <<"\"", "s", "\"">>}

FirstItems == {FlagItem, KeyValueItem} \cup DefaultItems

ItemRests == {<<>>, <<",", "q">>, <<",", "q", "=", "2">>, <<",">>, <<" ", "q">>}

FirstItemSource(first, rest) == <<"a", "[">> \o first \o rest \o <<"]">>

FirstItemSources ==
    {FirstItemSource(first, rest) : first \in FirstItems, rest \in ItemRests}

Sources ==
    Strs(NestChars, MaxNestLen) \cup Strs(LineChars, MaxLineLen)
      \cup Strs(MiscChars, MaxMiscLen) \cup Strs(CodeChars, MaxCodeLen)
      \cup InterpSources \cup Strs(BracketChars, MaxBracketLen)
      \cup NamedPropertySources \cup IntegerSources \cup EscapeSources
      \cup CommentSources
      \cup FirstItemSources

InitLexer ==
    /\ src \in Sources
    /\ chars = src
    /\ line = 1
    /\ column = 1
    /\ interpolation_mode = <<>>
    /\ tokens = <<>>
    /\ tok_at = <<>>

(***************************************************************************)
(* Spans                                                                   *)
(***************************************************************************)
position_le(a, b) == a.line < b.line \/ (a.line = b.line /\ a.column <= b.column)
position_min(a, b) == IF position_le(a, b) THEN a ELSE b
position_max(a, b) == IF position_le(a, b) THEN b ELSE a

\* impl BitOr for Span / impl BitOrAssign for Span
\* variant: the start of the left operand is kept
bitor_keeping_start(lhs, rhs) ==
    [start |-> lhs.start, end |-> position_max(lhs.end, rhs.end)]

\* impl BitOr for Span
bitor(lhs, rhs) ==
    [start |-> position_min(lhs.start, rhs.start),
     end |-> position_max(lhs.end, rhs.end)]

\* impl BitOrAssign for Span: the value of self after self |= rhs
bitor_assign(self, rhs) ==
    [self EXCEPT !.start = position_min(self.start, rhs.start),
                 !.end = position_max(self.end, rhs.end)]

\* spans over MaxSpanLine lines of MaxSpanColumn columns, folded MaxFold at
\* a time
MaxSpanLine == 2
MaxSpanColumn == 2
MaxFold == 2

Positions == [line : 1..MaxSpanLine, column : 1..MaxSpanColumn]

Spans == {s \in [start : Positions, end : Positions] : position_le(s.start, s.end)}

InitSpan ==
    /\ span_acc \in Spans
    /\ union = span_acc
    /\ folded = <<span_acc>>
    /\ PipelineIdle /\ ServerIdle

\* span_acc.span |= x.span in the foldl of text and string, next to span_acc | x
FoldSpan ==
    /\ Len(folded) < MaxFold
    /\ \E rhs \in Spans :
           /\ span_acc' = bitor_assign(span_acc, rhs)
           /\ union' = bitor(span_acc, rhs)
           /\ folded' = Append(folded, rhs)
    /\ UNCHANGED <<pipelinevars, servervars>>

NextSpan == FoldSpan

SpecSpan == InitSpan /\ [][NextSpan]_vars

(***************************************************************************)
(* Token parser (parser combinators over the token vector).  A parser      *)
(* applied at token index i returns [ok, pos, node]: on success pos is the *)
(* index of the next token; on failure nothing is consumed.                *)
(***************************************************************************)
Fail == [ok |-> FALSE, pos |-> 0, node |-> <<>>]
Ok(pos, node) == [ok |-> TRUE, pos |-> pos, node |-> node]

\* map_with_span: the span of the tokens i .. j-1
TokSpan(toks, eof, i, j) ==
    IF j > i THEN [start |-> toks[i].span.start, end |-> toks[j - 1].span.end]
    ELSE IF i <= Len(toks) THEN [start |-> toks[i].span.start, end |-> toks[i].span.start]
    ELSE eof

punctuator(toks, i, name) ==
    i <= Len(toks) /\ toks[i].kind = "Punctuator" /\ toks[i].value = <<name>>

keyword(toks, i, name) ==
    i <= Len(toks) /\ toks[i].kind = "Keyword" /\ toks[i].value = <<name>>

identifier(toks, i) ==
    IF i <= Len(toks) /\ toks[i].kind = "Identifier"
    THEN Ok(i + 1, [span |-> toks[i].span, name |-> toks[i].value])
    ELSE Fail

integer(toks, i) ==
    IF i <= Len(toks) /\ toks[i].kind = "IntegerLiteral"
    THEN Ok(i + 1, [span |-> toks[i].span, kind |-> "Integer", payload |-> toks[i].value])
    ELSE Fail

boolean(toks, i) ==
    IF i <= Len(toks) /\ toks[i].kind = "BooleanLiteral"
    THEN Ok(i + 1, [span |-> toks[i].span, kind |-> "Bool", payload |-> toks[i].value])
    ELSE Fail

\* select! on TokenKind::StringLiteral { content, .. }: is_closed is not looked at
string_literal(toks, i) ==
    IF i <= Len(toks) /\ toks[i].kind = "StringLiteral"
    THEN Ok(i + 1, [span |-> toks[i].span, kind |-> "Literal", payload |-> toks[i].value])
    ELSE Fail

\* select! on TokenKind::Text { content, .. }: is_closed is not looked at
text_literal(toks, i) ==
    IF i <= Len(toks) /\ toks[i].kind = "Text"
    THEN Ok(i + 1, [span |-> toks[i].span, kind |-> "Literal", payload |-> toks[i].value])
    ELSE Fail

variable_interpolation(toks, i) ==
    IF /\ punctuator(toks, i, "Dollar")
       /\ punctuator(toks, i + 1, "LeftCurlyBracket")
       /\ identifier(toks, i + 2).ok
       /\ punctuator(toks, i + 3, "RightCurlyBracket")
    THEN Ok(i + 4, [span |-> [start |-> toks[i].span.start, end |-> toks[i + 3].span.end],
                    kind |-> "Variable", payload |-> <<identifier(toks, i + 2).node>>])
    ELSE Fail

\* the closure given to foldl in text() and string()
fold_segment(acc, x) ==
    IF x.kind = "Literal" /\ x.payload = <<>> THEN acc
    ELSE [span |-> bitor(acc.span, x.span), segments |-> Append(acc.segments, x)]

\* segment.repeated() followed by foldl, for text (literal = text_literal)
RECURSIVE text_segments(_, _, _)
text_segments(toks, i, acc) ==
    LET v == variable_interpolation(toks, i)
        l == text_literal(toks, i)
    IN  IF v.ok THEN text_segments(toks, v.pos, fold_segment(acc, v.node))
        ELSE IF l.ok THEN text_segments(toks, l.pos, fold_segment(acc, l.node))
        ELSE Ok(i, acc)

RECURSIVE string_segments(_, _, _)
string_segments(toks, i, acc) ==
    LET v == variable_interpolation(toks, i)
        l == string_literal(toks, i)
    IN  IF v.ok THEN string_segments(toks, v.pos, fold_segment(acc, v.node))
        ELSE IF l.ok THEN string_segments(toks, l.pos, fold_segment(acc, l.node))
        ELSE Ok(i, acc)

text(toks, i) ==
    LET first == text_literal(toks, i)
    IN  IF ~first.ok THEN Fail
        ELSE text_segments(toks, first.pos,
                           [span |-> first.node.span, segments |-> <<first.node>>])

\* a.or(b): the first alternative that matches
OrElse(a, b) == IF a.ok THEN a ELSE b

\* a.or_not() tried at token i: Some(node), or None without consuming
OrNot(a, i) == IF a.ok THEN Ok(a.pos, Some(a.node)) ELSE Ok(i, None)

string(toks, i) ==
    LET Built(first, r) ==
            Ok(r.pos, [span |-> r.node.span, kind |-> "String", payload |-> r.node.segments])
        Rest(first) ==
            IF ~first.ok THEN Fail
            ELSE Built(first, string_segments(toks, first.pos,
                                              [span |-> first.node.span,
                                               segments |-> <<first.node>>]))
    IN  Rest(string_literal(toks, i))

\* identifier().map_with_span(ValueKind::Variable)
variable_value(id) ==
    IF id.ok THEN Ok(id.pos, [span |-> id.node.span, kind |-> "Variable",
                              payload |-> <<id.node>>])
    ELSE Fail

value(toks, i) ==
    OrElse(integer(toks, i),
           OrElse(boolean(toks, i),
                  OrElse(string(toks, i), variable_value(identifier(toks, i)))))

flag_property(toks, i) ==
    LET Built(k) ==
            IF k.ok
            THEN Ok(k.pos, [span |-> k.node.span, kind |-> "Flag", key |-> k.node,
                            value |-> None])
            ELSE Fail
    IN  Built(identifier(toks, i))

key_value_property(toks, eof, i) ==
    LET Built(k, v) ==
            IF k.ok /\ punctuator(toks, i + 1, "Equals") /\ v.ok
            THEN Ok(v.pos, [span |-> TokSpan(toks, eof, i, v.pos), kind |-> "KeyValue",
                            key |-> k.node, value |-> Some(v.node)])
            ELSE Fail
    IN  Built(identifier(toks, i), value(toks, i + 2))

named_property(toks, eof, i) ==
    OrElse(key_value_property(toks, eof, i), flag_property(toks, i))

\* separated_by(Comma).allow_trailing(): the items after the first
RECURSIVE named_properties_rest(_, _, _, _)
named_properties_rest(toks, eof, i, acc) ==
    LET More(p) ==
            IF p.ok THEN named_properties_rest(toks, eof, p.pos, Append(acc, p.node))
            ELSE Ok(i + 1, acc)
    IN  IF punctuator(toks, i, "Comma") THEN More(named_property(toks, eof, i + 1))
        ELSE Ok(i, acc)

\* named_property().separated_by(Comma).at_least(1).allow_trailing()
named_properties(toks, eof, i) ==
    LET More(p) ==
            IF p.ok THEN named_properties_rest(toks, eof, p.pos, <<p.node>>) ELSE Fail
    IN  More(named_property(toks, eof, i))

\* variant: the default-value forms tried before the named list
properties_default_first(toks, eof, i) ==
    LET Close(r, dflt) ==
            IF r.ok /\ punctuator(toks, r.pos, "RightSquareBracket")
            THEN Ok(r.pos + 1, [span |-> TokSpan(toks, eof, i, r.pos + 1),
                                default |-> dflt, properties |-> r.node])
            ELSE Fail
        DefaultThenNamed(d, b) ==
            IF punctuator(toks, d.pos, "Comma") /\ b.ok THEN Close(b, Some(d.node))
            ELSE Close(Ok(d.pos, <<>>), Some(d.node))
        WithDefault(d, a) ==
            IF d.ok THEN DefaultThenNamed(d, named_properties(toks, eof, d.pos + 1))
            ELSE IF a.ok THEN Close(a, None)
            ELSE Fail
    IN  IF punctuator(toks, i, "LeftSquareBracket")
        THEN WithDefault(value(toks, i + 1), named_properties(toks, eof, i + 1))
        ELSE Fail

properties(toks, eof, i) ==
    LET Close(r, dflt) ==
            IF r.ok /\ punctuator(toks, r.pos, "RightSquareBracket")
            THEN Ok(r.pos + 1, [span |-> TokSpan(toks, eof, i, r.pos + 1),
                                default |-> dflt, properties |-> r.node])
            ELSE Fail
        DefaultThenNamed(d, b) ==
            IF punctuator(toks, d.pos, "Comma") /\ b.ok THEN Close(b, Some(d.node))
            ELSE Close(Ok(d.pos, <<>>), Some(d.node))
        WithDefault(d) ==
            IF d.ok THEN DefaultThenNamed(d, named_properties(toks, eof, d.pos + 1))
            ELSE Fail
        Choice(a) == IF a.ok THEN Close(a, None) ELSE WithDefault(value(toks, i + 1))
    IN  IF punctuator(toks, i, "LeftSquareBracket")
        THEN Choice(named_properties(toks, eof, i + 1))
        ELSE Fail

component_name(toks, i) ==
    IF identifier(toks, i).ok THEN identifier(toks, i)
    ELSE IF punctuator(toks, i, "At")
    THEN Ok(i + 1, [span |-> toks[i].span, name |-> <<"@">>])
    ELSE IF punctuator(toks, i, "Hash")
    THEN Ok(i + 1, [span |-> toks[i].span, name |-> <<"#">>])
    ELSE Fail

RECURSIVE component(_, _, _)
RECURSIVE component_repeated(_, _, _, _)

\* component.repeated()
component_repeated(toks, eof, i, acc) ==
    LET More(c) ==
            IF c.ok THEN component_repeated(toks, eof, c.pos, Append(acc, c.node))
            ELSE Ok(i, acc)
    IN  More(component(toks, eof, i))

\* component.repeated().delimited_by('{', '}')
children_block(toks, eof, i) ==
    LET Close(cs) ==
            IF punctuator(toks, cs.pos, "RightCurlyBracket")
            THEN Ok(cs.pos + 1, [span |-> TokSpan(toks, eof, i, cs.pos + 1),
                                 children |-> cs.node])
            ELSE Fail
    IN  IF punctuator(toks, i, "LeftCurlyBracket")
        THEN Close(component_repeated(toks, eof, i + 1, <<>>))
        ELSE Fail

component(toks, eof, i) ==
    LET Built(n, p, t, c) ==
            Ok(c.pos, [item |-> "Component",
                       span |-> TokSpan(toks, eof, i, c.pos),
                       name |-> n.node,
                       properties |-> p.node,
                       text |-> t.node,
                       children |-> c.node])
        ThenChildren(n, p, t) ==
            Built(n, p, t, OrNot(children_block(toks, eof, t.pos), t.pos))
        ThenText(n, p) == ThenChildren(n, p, OrNot(text(toks, p.pos), p.pos))
        ThenProperties(n) ==
            IF n.ok THEN ThenText(n, OrNot(properties(toks, eof, n.pos), n.pos))
            ELSE Fail
    IN  ThenProperties(component_name(toks, i))

ty(toks, eof, i) ==
    LET IsType(name) == i <= Len(toks) /\ toks[i].kind = "Type" /\ toks[i].value = <<name>>
    IN  IF IsType("String") THEN Ok(i + 1, [span |-> toks[i].span, kind |-> "String"])
        ELSE IF IsType("Integer") THEN Ok(i + 1, [span |-> toks[i].span, kind |-> "Integer"])
        ELSE IF IsType("Bool") THEN Ok(i + 1, [span |-> toks[i].span, kind |-> "Bool"])
        ELSE IF /\ IsType("Slot")
                /\ punctuator(toks, i + 1, "LeftSquareBracket")
                /\ punctuator(toks, i + 2, "RightSquareBracket")
        THEN Ok(i + 3, [span |-> TokSpan(toks, eof, i, i + 3), kind |-> "SlotList"])
        ELSE IF IsType("Slot") THEN Ok(i + 1, [span |-> toks[i].span, kind |-> "Slot"])
        ELSE Fail

\* the closure named_property_definition; its node carries no kind yet
named_property_definition(toks, eof, i) ==
    LET Built(n, t, v) ==
            Ok(v.pos, [span |-> TokSpan(toks, eof, i, v.pos), name |-> n.node,
                       ty |-> Some(t.node), default_value |-> v.node])
        \* punctuator(Equals).ignore_then(value()).or_not()
        ThenDefault(n, t) ==
            IF punctuator(toks, t.pos, "Equals")
            THEN Built(n, t, OrNot(value(toks, t.pos + 1), t.pos))
            ELSE Built(n, t, Ok(t.pos, None))
        ThenType(n, t) ==
            IF n.ok /\ punctuator(toks, i + 1, "Colon") /\ t.ok THEN ThenDefault(n, t)
            ELSE Fail
    IN  ThenType(identifier(toks, i), ty(toks, eof, i + 2))

property_definition(toks, eof, i) ==
    LET Default(d) ==
            IF keyword(toks, i, "Default") /\ d.ok
            THEN Ok(d.pos, [span |-> TokSpan(toks, eof, i, d.pos), kind |-> "Default",
                            name |-> d.node.name, ty |-> d.node.ty,
                            default_value |-> d.node.default_value])
            ELSE Fail
        Text(x) ==
            IF keyword(toks, i, "Text") /\ x.ok
            THEN Ok(x.pos, [span |-> TokSpan(toks, eof, i, x.pos), kind |-> "Text",
                            name |-> x.node, ty |-> None, default_value |-> None])
            ELSE Fail
        Named(n) ==
            IF n.ok
            THEN Ok(n.pos, [span |-> n.node.span, kind |-> "Named",
                            name |-> n.node.name, ty |-> n.node.ty,
                            default_value |-> n.node.default_value])
            ELSE Fail
    IN  OrElse(Default(named_property_definition(toks, eof, i + 1)),
               OrElse(Text(identifier(toks, i + 1)),
                      Named(named_property_definition(toks, eof, i))))

RECURSIVE property_definitions_rest(_, _, _, _)
property_definitions_rest(toks, eof, i, acc) ==
    LET More(p) ==
            IF p.ok THEN property_definitions_rest(toks, eof, p.pos, Append(acc, p.node))
            ELSE Ok(i + 1, acc)
    IN  IF punctuator(toks, i, "Comma") THEN More(property_definition(toks, eof, i + 1))
        ELSE Ok(i, acc)

properties_definition(toks, eof, i) ==
    LET Close(r) ==
            IF punctuator(toks, r.pos, "RightSquareBracket")
            THEN Ok(r.pos + 1, [span |-> TokSpan(toks, eof, i, r.pos + 1),
                                properties |-> r.node])
            ELSE Fail
        \* separated_by(Comma).allow_trailing(), possibly empty
        List(p) ==
            IF p.ok THEN Close(property_definitions_rest(toks, eof, p.pos, <<p.node>>))
            ELSE Close(Ok(i + 1, <<>>))
    IN  IF punctuator(toks, i, "LeftSquareBracket")
        THEN List(property_definition(toks, eof, i + 1))
        ELSE Fail

component_definition(toks, eof, i) ==
    LET Built(n, p, c) ==
            Ok(c.pos, [item |-> "ComponentDefinition",
                       span |-> TokSpan(toks, eof, i, c.pos),
                       name |-> n.node,
                       properties |-> p.node,
                       children |-> c.node])
        ThenChildren(n, p) == Built(n, p, OrNot(children_block(toks, eof, p.pos), p.pos))
        ThenProperties(n) ==
            IF keyword(toks, i, "Component") /\ n.ok
            THEN ThenChildren(n, OrNot(properties_definition(toks, eof, n.pos), n.pos))
            ELSE Fail
    IN  ThenProperties(identifier(toks, i + 1))

RECURSIVE module_items(_, _, _, _)
module_items(toks, eof, i, acc) ==
    LET More(r) ==
            IF r.ok THEN module_items(toks, eof, r.pos, Append(acc, r.node))
            ELSE Ok(i, acc)
    IN  More(OrElse(component(toks, eof, i), component_definition(toks, eof, i)))

\* module(): items, then end(); parser() is module()
parser(toks, eof) ==
    LET End(r) ==
            IF r.pos = Len(toks) + 1
            THEN Ok(r.pos, [span |-> TokSpan(toks, eof, 1, r.pos), items |-> r.node])
            ELSE Fail
    IN  End(module_items(toks, eof, 1, <<>>))

(***************************************************************************)
(* Validator.  A result is None (Ok(())) or Some(error).                   *)
(***************************************************************************)
\* miette::SourceOffset::from_location(code, loc_line, loc_col): scan the
\* code, counting only "\n" as a line break, until the location is reached.
RECURSIVE from_location(_, _, _, _, _, _)
from_location(code, k, ln, col, loc_line, loc_col) ==
    IF k > Len(code) \/ (ln + 1 >= loc_line /\ col + 1 >= loc_col) THEN k - 1
    ELSE IF code[k] = "\n" THEN from_location(code, k + 1, ln + 1, 0, loc_line, loc_col)
    ELSE from_location(code, k + 1, ln, col + 1, loc_line, loc_col)

to_miette_offset(pos, code) == from_location(code, 1, 0, 0, pos.line, pos.column)

to_miette_span(sp, code) ==
    [offset |-> to_miette_offset(sp.start, code),
     length |-> to_miette_offset(sp.end, code) - to_miette_offset(sp.start, code)]

Insert(map, k, v) == (k :> v) @@ map

RECURSIVE validate_component_properties_loop(_, _, _, _, _)
validate_component_properties_loop(code, props, k, keys, comp) ==
    IF k > Len(props) THEN None
    ELSE LET key == props[k].key
         IN  IF key.name \in DOMAIN keys
             THEN Some([kind |-> "DuplicatedPropertyName",
                        component_name |-> to_miette_span(comp.name.span, code),
                        first |-> keys[key.name],
                        second |-> to_miette_span(key.span, code),
                        name |-> key.name])
             ELSE validate_component_properties_loop(code, 
                      props, k + 1, Insert(keys, key.name, to_miette_span(key.span, code)), comp)

validate_component_properties(code, props, comp) ==
    validate_component_properties_loop(code, props.properties, 1, <<>>, comp)

validate_component(code, comp) ==
    IF comp.text # None /\ comp.children # None
    THEN Some([kind |-> "TextComponentWithChildren",
               component_name |-> to_miette_span(comp.name.span, code),
               text |-> to_miette_span(comp.text[1].span, code),
               children |-> to_miette_span(comp.children[1].span, code)])
    ELSE IF comp.properties # None
    THEN validate_component_properties(code, comp.properties[1], comp)
    ELSE None

IsTextDecl(prop) == prop.kind = "Text"
IsDefaultDecl(prop) == prop.kind = "Default"
\* variant: a default declaration of type slot counts as well
IsSlotDecl_of_any_kind(prop) == prop.kind # "Text" /\ prop.ty[1].kind = "Slot"
IsSlotDecl(prop) == prop.kind = "Named" /\ prop.ty[1].kind = "Slot"
IsSlotListDecl(prop) == prop.kind = "Named" /\ prop.ty[1].kind = "SlotList"

PairError(code, kind, comp, a, b) ==
    Some([kind |-> kind,
          component_name |-> to_miette_span(comp.name.span, code),
          first |-> to_miette_span(a.span, code),
          second |-> to_miette_span(b.span, code)])

RECURSIVE validate_definition_names_loop(_, _, _, _, _)
validate_definition_names_loop(code, props, k, keys, comp) ==
    IF k > Len(props) THEN None
    ELSE LET name == props[k].name
         IN  IF name.name \in DOMAIN keys
             THEN Some([kind |-> "DuplicatedPropertyName",
                        component_name |-> to_miette_span(comp.name.span, code),
                        first |-> keys[name.name],
                        second |-> to_miette_span(name.span, code),
                        name |-> name.name])
             ELSE validate_definition_names_loop(code, 
                      props, k + 1, Insert(keys, name.name, to_miette_span(name.span, code)), comp)

validate_component_definition_properties(code, properties_def, comp) ==
    LET props == properties_def.properties
        texts == SelectSeq(props, IsTextDecl)
        defaults == SelectSeq(props, IsDefaultDecl)
        slots == SelectSeq(props, IsSlotDecl)
        slot_lists == SelectSeq(props, IsSlotListDecl)
    IN  IF Len(texts) >= 2 THEN PairError(code, "MultipleTextProps", comp, texts[1], texts[2])
        ELSE IF Len(defaults) >= 2
        THEN PairError(code, "MultipleDefaultProps", comp, defaults[1], defaults[2])
        ELSE IF Len(slots) >= 2
        THEN PairError(code, "MultipleSlotProps", comp, slots[1], slots[2])
        ELSE IF Len(slot_lists) >= 2
        THEN PairError(code, "MultipleSlotListProps", comp, slot_lists[1], slot_lists[2])
        ELSE IF Len(slots) >= 1 /\ Len(slot_lists) >= 1
        THEN Some([kind |-> "SlotAndSlotListProps",
                   component_name |-> to_miette_span(comp.name.span, code),
                   slot |-> to_miette_span(slots[1].span, code),
                   slot_list |-> to_miette_span(slot_lists[1].span, code)])
        ELSE validate_definition_names_loop(code, props, 1, <<>>, comp)

validate_component_definition(code, component_def) ==
    IF component_def.properties # None
    THEN validate_component_definition_properties(code, component_def.properties[1], component_def)
    ELSE None

validate_module_item(code, it) ==
    IF it.item = "Component" THEN validate_component(code, it)
    ELSE validate_component_definition(code, it)

(***************************************************************************)
(* IR generator.  A result is GOk(node) or GErr(error); HashSet is a set,  *)
(* HashMap a function.                                                     *)
(***************************************************************************)
\* #[derive(Hash, Eq, PartialEq)] on ast::Identifier: both fields take part
ast_identifier_eq(a, b) == a.span = b.span /\ a.name = b.name

\* what the derived Hash of ast::Identifier feeds to the hasher
ast_identifier_hash(a) == <<a.span, a.name>>

\* #[derive(Eq, PartialEq)] on ir::Identifier: both fields take part
ir_identifier_eq(a, b) == a.span = b.span /\ a.name = b.name

\* impl Hash for ir::Identifier: only the name is fed to the hasher
ir_identifier_hash(a) == a.name

GOk(node) == [ok |-> TRUE, node |-> node]
GErr(e) == [ok |-> FALSE, err |-> e]

generate_identifier(id) == [span |-> id.span, name |-> id.name]

generate_interpolation_segment(segment) ==
    IF segment.kind = "Literal"
    THEN [span |-> segment.span, kind |-> "Literal", payload |-> segment.payload]
    ELSE [span |-> segment.span, kind |-> "Variable",
          payload |-> <<generate_identifier(segment.payload[1])>>]

generate_segments(segments) ==
    [k \in 1..Len(segments) |-> generate_interpolation_segment(segments[k])]

generate_text(t) == [span |-> t.span, segments |-> generate_segments(t.segments)]

generate_string_value(sp, segments) == [span |-> sp, segments |-> generate_segments(segments)]

generate_value(v) ==
    [span |-> v.span, kind |-> v.kind,
     payload |-> CASE v.kind = "String" -> <<generate_string_value(v.span, v.payload)>>
                   [] v.kind = "Variable" -> <<generate_identifier(v.payload[1])>>
                   [] OTHER -> v.payload]

generate_type(t) == [span |-> t.span, kind |-> t.kind]

DuplicatedPropertyError(name, first, second) ==
    GErr([kind |-> "DuplicatedProperty", name |-> name, first |-> first, second |-> second])

RECURSIVE generate_properties_loop(_, _, _, _, _, _)
RECURSIVE generate_properties_loop_flags_unnamed(_, _, _, _, _, _)
\* variant: a flag is not entered into `names`
generate_properties_loop_flags_unnamed(props, k, names, default, named, flags) ==
    IF k > Len(props)
    THEN GOk([default |-> default, named_properties |-> named,
              flag_properties |-> flags])
    ELSE LET property == props[k]
             key == generate_identifier(property.key)
         IN  IF key.name \in DOMAIN names
             THEN DuplicatedPropertyError(key.name, names[key.name], key.span)
             ELSE IF property.kind = "KeyValue"
             THEN generate_properties_loop_flags_unnamed(
                      props, k + 1, Insert(names, key.name, key.span), default,
                      named \cup {[span |-> property.span, key |-> key,
                                              value |-> generate_value(property.value[1])]},
                      flags)
             ELSE generate_properties_loop_flags_unnamed(
                      props, k + 1, names, default,
                      named, flags \cup {key})

RECURSIVE generate_properties_loop_unchecked(_, _, _, _, _, _)
\* variant: a name that is already in the list of names is not looked for
generate_properties_loop_unchecked(props, k, names, default, named, flags) ==
    IF k > Len(props)
    THEN GOk([default |-> default, named_properties |-> named,
              flag_properties |-> flags])
    ELSE LET property == props[k]
             key == generate_identifier(property.key)
         IN  IF property.kind = "KeyValue"
             THEN generate_properties_loop_unchecked(
                      props, k + 1, names, default,
                      named \cup {[span |-> property.span, key |-> key,
                                   value |-> generate_value(property.value[1])]},
                      flags)
             ELSE generate_properties_loop_unchecked(
                      props, k + 1, names, default, named, flags \cup {key})

generate_properties_loop(props, k, names, default, named, flags) ==
    IF k > Len(props)
    THEN GOk([default |-> default, named_properties |-> named,
              flag_properties |-> flags])
    ELSE LET property == props[k]
             key == generate_identifier(property.key)
         IN  IF key.name \in DOMAIN names
             THEN DuplicatedPropertyError(key.name, names[key.name], key.span)
             ELSE IF property.kind = "KeyValue"
             THEN generate_properties_loop(
                      props, k + 1, Insert(names, key.name, key.span), default,
                      named \cup {[span |-> property.span, key |-> key,
                                              value |-> generate_value(property.value[1])]},
                      flags)
             ELSE generate_properties_loop(
                      props, k + 1, Insert(names, key.name, key.span), default,
                      named, flags \cup {key})

generate_properties(props) ==
    generate_properties_loop(
        props.properties, 1, <<>>,
        IF props.default = None THEN None ELSE Some(generate_value(props.default[1])),
        {}, {})

EmptyProperties == [default |-> None, named_properties |-> {}, flag_properties |-> {}]

RECURSIVE generate_component(_)
RECURSIVE generate_children_loop(_, _, _)

\* children.into_iter().map(generate_component).collect::<Result<_, _>>()
generate_children_loop(cs, k, acc) ==
    IF k > Len(cs) THEN GOk(acc)
    ELSE LET r == generate_component(cs[k])
         IN  IF r.ok THEN generate_children_loop(cs, k + 1, Append(acc, r.node)) ELSE r

\* variant: the children are lowered last to first
generate_children_reversed(children) ==
    generate_children_loop(
        [k \in 1..Len(children.children) |->
            children.children[Len(children.children) + 1 - k]],
        1, <<>>)

generate_children(children) == generate_children_loop(children.children, 1, <<>>)

\* variant: a component may have both a text and children
generate_component_with_text_and_children(comp) ==
    LET name == generate_identifier(comp.name)
        props == IF comp.properties = None THEN GOk(EmptyProperties)
                 ELSE generate_properties(comp.properties[1])
        cs == IF comp.children = None THEN GOk(<<>>)
              ELSE generate_children(comp.children[1])
    IN  IF ~props.ok THEN props
        ELSE IF ~cs.ok THEN cs
        ELSE GOk([span |-> comp.span, name |-> name, properties |-> props.node,
                  children |-> cs.node,
                  text |-> IF comp.text = None THEN None
                           ELSE Some(generate_text(comp.text[1]))])

generate_component(comp) ==
    LET name_span == comp.name.span
        name == generate_identifier(comp.name)
        props == IF comp.properties = None THEN GOk(EmptyProperties)
                 ELSE generate_properties(comp.properties[1])
        cs == IF comp.children = None THEN GOk(<<>>)
              ELSE generate_children(comp.children[1])
    IN  IF ~props.ok THEN props
        ELSE IF comp.children # None /\ comp.text # None
        THEN GErr([kind |-> "TextComponentWithChildren", component_name |-> name_span,
                   children |-> comp.children[1].span, text |-> comp.text[1].span])
        ELSE IF ~cs.ok THEN cs
        ELSE GOk([span |-> comp.span, name |-> name, properties |-> props.node,
                  children |-> cs.node,
                  text |-> IF comp.text = None THEN None
                           ELSE Some(generate_text(comp.text[1]))])

RECURSIVE generate_properties_definition_loop(_, _, _, _, _, _)
generate_properties_definition_loop(def, k, default_property, text_property, props, names) ==
    IF k > Len(def.properties)
    THEN GOk([span |-> def.span, default_property |-> default_property,
              text_property |-> text_property, properties |-> props])
    ELSE LET property == def.properties[k]
             nm == property.name
             dup == DuplicatedPropertyError(nm.name, names[nm.name], property.span)
             names1 == Insert(names, nm.name, property.span)
         IN  CASE property.kind = "Default" ->
                    IF default_property # None
                    THEN GErr([kind |-> "MultipleDefaultProperties",
                               component_name |-> nm.span,
                               first |-> default_property[1].span,
                               second |-> property.span])
                    ELSE IF nm.name \in DOMAIN names THEN dup
                    ELSE IF property.default_value # None
                    THEN GErr([kind |-> "DefaultPropertyWithValue",
                               component_name |-> nm.span,
                               property |-> property.span,
                               default_value |-> property.default_value[1].span])
                    ELSE LET d == [span |-> property.span,
                                   name |-> generate_identifier(nm),
                                   ty |-> generate_type(property.ty[1]),
                                   default_value |-> None]
                         IN  generate_properties_definition_loop(
                                 def, k + 1, Some(d), text_property, props \cup {d}, names1)
               [] property.kind = "Text" ->
                    IF text_property # None
                    THEN GErr([kind |-> "MultipleTextProperties",
                               component_name |-> nm.span,
                               first |-> text_property[1].span,
                               second |-> property.span])
                    ELSE IF nm.name \in DOMAIN names THEN dup
                    ELSE generate_properties_definition_loop(
                             def, k + 1, default_property, Some(generate_identifier(nm)),
                             props, names1)
               [] OTHER ->
                    IF nm.name \in DOMAIN names THEN dup
                    ELSE generate_properties_definition_loop(
                             def, k + 1, default_property, text_property,
                             props \cup {[span |-> property.span,
                                          name |-> generate_identifier(nm),
                                          ty |-> generate_type(property.ty[1]),
                                          default_value |->
                                            IF property.default_value = None THEN None
                                            ELSE Some(generate_value(property.default_value[1]))]},
                             names1)

\* variant: the default values of the declarations are not looked at
generate_properties_definition_ignoring_values(def) ==
    generate_properties_definition_loop(
        [def EXCEPT !.properties =
             [k \in 1..Len(def.properties) |->
                 [def.properties[k] EXCEPT !.default_value = None]]],
        1, None, None, {}, <<>>)

generate_properties_definition(def) ==
    generate_properties_definition_loop(def, 1, None, None, {}, <<>>)

FirstCircular(children, name) ==
    LET hits == {k \in 1..Len(children) : children[k].name.name = name.name}
    IN  IF hits = {} THEN None
        ELSE Some(children[CHOOSE k \in hits : \A h \in hits : k <= h])

generate_component_definition(def) ==
    LET name == generate_identifier(def.name)
        cs == IF def.children = None THEN GOk(<<>>) ELSE generate_children(def.children[1])
        props == IF def.properties = None
                 THEN GOk([span |-> def.name.span, text_property |-> None,
                           default_property |-> None, properties |-> {}])
                 ELSE generate_properties_definition(def.properties[1])
    IN  IF ~cs.ok THEN cs
        ELSE IF FirstCircular(cs.node, name) # None
        THEN GErr([kind |-> "CircularDefinition", component_name |-> name.span,
                   circular |-> FirstCircular(cs.node, name)[1].span])
        ELSE IF ~props.ok THEN props
        ELSE GOk([item |-> "ComponentDefinition", span |-> def.span,
                  name |-> generate_identifier(def.name),
                  properties |-> props.node, children |-> cs.node])

generate_module_item(it) ==
    IF it.item = "Component"
    THEN LET r == generate_component(it)
         IN  IF r.ok THEN GOk([item |-> "Component", component |-> r.node]) ELSE r
    ELSE generate_component_definition(it)

(***************************************************************************)
(* The pipeline: markerml::parse runs the lexer, the token parser, the     *)
(* validator and, when the front end succeeded, the IR generator.          *)
(***************************************************************************)
\* Lexer::lex as a whole: the loop run until the characters are exhausted,
\* and the end-of-file span
RECURSIVE lex_loop(_, _, _, _)
lex_loop(code, s, toks, at) ==
    IF s.chars = <<>>
    THEN [s |-> s, tokens |-> toks, at |-> at, eof |-> span(s, position(s))]
    ELSE LET Continue(r) ==
                 lex_loop(code, r.s, toks \o r.tokens,
                          at \o [k \in 1..Len(r.tokens) |-> Len(code) - Len(s.chars)])
         IN  Continue(lex_iteration(s))

lex(code) ==
    lex_loop(code, [chars |-> code, line |-> 1, column |-> 1, interpolation_mode |-> <<>>],
             <<>>, <<>>)

Init ==
    /\ InitLexer
    /\ phase = "lex"
    /\ parsed = FALSE
    /\ ast = [items |-> <<>>]
    /\ v_idx = 1 /\ v_result = None
    /\ g_idx = 1 /\ g_items = <<>> /\ g_result = None
    /\ SpanIdle /\ ServerIdle

\* markerml_frontend::parse after the lexer: parser::parse(&code, tokens, eof)?
Parse ==
    /\ phase = "lex" /\ chars = <<>>
    /\ \E r \in {parser(tokens, span(LexerState, position(LexerState)))} :
           /\ parsed' = r.ok
           /\ ast' = IF r.ok THEN r.node ELSE ast
           /\ phase' = IF ~r.ok THEN "error"
                       ELSE IF r.node.items = <<>> THEN "done" ELSE "validate"
    /\ UNCHANGED <<lexvars, v_idx, v_result, g_idx, g_items, g_result>>
    /\ UNCHANGED <<spanvars, servervars>>

\* one iteration of the loop of Validator::validate_module; phase "ast" is
\* Validator::validate called on an AST outside markerml::parse
ValidateItem ==
    /\ phase \in {"validate", "ast"}
    /\ v_result = None /\ v_idx <= Len(ast.items)
    /\ \E r \in {validate_module_item(src, ast.items[v_idx])} :
           /\ v_result' = r
           /\ v_idx' = v_idx + 1
           /\ phase' = IF phase = "ast" THEN "ast"
                       ELSE IF r # None THEN "error"
                       ELSE IF v_idx = Len(ast.items) THEN "generate" ELSE "validate"
    /\ UNCHANGED <<lexvars, parsed, ast, g_idx, g_items, g_result>>
    /\ UNCHANGED <<spanvars, servervars>>

\* one item of the map/collect of IrGenerator::generate_module; phase "ast"
\* is generate_ir called on an AST outside markerml::parse
GenerateItem ==
    /\ phase \in {"generate", "ast"}
    /\ g_result = None /\ g_idx <= Len(ast.items)
    /\ \E r \in {generate_module_item(ast.items[g_idx])} :
           /\ g_result' = IF r.ok THEN None ELSE Some(r.err)
           /\ g_items' = IF r.ok THEN Append(g_items, r.node) ELSE g_items
           /\ g_idx' = g_idx + 1
           /\ phase' = IF phase = "ast" THEN "ast"
                       ELSE IF ~r.ok THEN "error"
                       ELSE IF g_idx = Len(ast.items) THEN "done" ELSE "generate"
    /\ UNCHANGED <<lexvars, parsed, ast, v_idx, v_result>>
    /\ UNCHANGED <<spanvars, servervars>>

Next ==
    \/ LexDefault
    \/ LexInterpolationStart
    \/ LexInterpolation
    \/ LexInterpolationLiteral
    \/ Parse
    \/ ValidateItem
    \/ GenerateItem

Spec == Init /\ [][Next]_vars

(***************************************************************************)
(* Validator::validate and generate_ir called directly on the AST of a     *)
(* well-formed source.  The sources are built from fragments: components   *)
(* with property lists, nested components with text and children, and     *)
(* component definitions with property declarations.                       *)
(***************************************************************************)
MaxProps == 3
MaxDepth == 2
MaxDecls == 3

RECURSIVE Join(_, _)
Join(parts, sep) ==
    IF parts = <<>> THEN <<>>
    ELSE IF Len(parts) = 1 THEN parts[1]
    ELSE parts[1] \o sep \o Join(Tail(parts), sep)

Lists(S, n) == UNION {[1..k -> S] : k \in 1..n}

KwComponent == <<"c", "o", "m", "p", "o", "n", "e", "n", "t", " ">>

PropEntries ==
    {<<"p">>, <<"q">>, <<"p", "=", "1">>, <<"p", "=", "2">>, <<"q", "=", "1">>}

PropLists ==
    {<<"a", "[">> \o d \o Join(l, <<",">>) \o <<"]">> :
        d \in {<<>>, <<"7", ",">>}, l \in Lists(PropEntries, MaxProps)}

RECURSIVE Comps(_)
Comps(d) ==
    IF d = 0 THEN {<<"a">>, <<"a", "(", "x", ")">>, <<"a", "{", "}">>,
                   <<"a", "(", "x", ")", "{", "}">>, <<"a", "[", "p", ",", "p", "]">>}
    ELSE Comps(d - 1)
           \cup {<<"b">> \o t \o <<"{">> \o k \o <<"}">> :
                    t \in {<<>>, <<"(", "x", ")">>}, k \in Comps(d - 1)}

\* definitions named a or b whose body holds one component, possibly with a
\* child of its own, or two sibling components
DefBodies ==
    {KwComponent \o n \o <<"{">> \o k \o <<"}">> :
        n \in {<<"a">>, <<"b">>},
        k \in Comps(MaxDepth - 1)
                \cup {s \o <<" ">> \o c : s \in Comps(0), c \in {<<"a">>, <<"b">>}}}

DeclEntries ==
    {<<"t", "e", "x", "t", " ">> \o n : n \in {<<"x">>, <<"y">>}}
      \cup {<<"d", "e", "f", "a", "u", "l", "t", " ">> \o n \o <<":">> \o ty_name :
               n \in {<<"x">>, <<"y">>},
               ty_name \in {<<"s", "t", "r", "i", "n", "g">>, <<"s", "l", "o", "t">>}}
      \cup {n \o <<":">> \o ty_name :
               n \in {<<"x">>, <<"y">>},
               ty_name \in {<<"s", "t", "r", "i", "n", "g">>, <<"s", "l", "o", "t">>,
                            <<"s", "l", "o", "t", "[", "]">>}}
      \cup {<<"d", "e", "f", "a", "u", "l", "t", " ", "x", ":",
               "s", "t", "r", "i", "n", "g", "=", "1">>,
             <<"y", ":", "s", "t", "r", "i", "n", "g", "=", "1">>}

DeclLists ==
    {KwComponent \o <<"a", "[">> \o Join(l, <<",">>) \o <<"]">> :
        l \in Lists(DeclEntries, MaxDecls)}

AstSources ==
    PropLists \cup Comps(MaxDepth) \cup DefBodies \cup DeclLists
      \cup InterpSources \cup NamedPropertySources
      \cup {<<"b", "{">> \o s \o <<"}">> : s \in PropLists}
      \cup {s \o <<" ">> \o k : s \in Comps(0), k \in Comps(0)}

InitAst ==
    \E code \in AstSources :
        \E l \in {lex(code)} :
        \E r \in {parser(l.tokens, l.eof)} :
            /\ r.ok
            /\ src = code
            /\ chars = l.s.chars
            /\ line = l.s.line
            /\ column = l.s.column
            /\ interpolation_mode = l.s.interpolation_mode
            /\ tokens = l.tokens
            /\ tok_at = l.at
            /\ parsed = TRUE
            /\ ast = r.node
            /\ phase = "ast"
            /\ v_idx = 1 /\ v_result = None
            /\ g_idx = 1 /\ g_items = <<>> /\ g_result = None
            /\ SpanIdle /\ ServerIdle

NextAst ==
    \/ ValidateItem
    \/ GenerateItem

SpecAst == InitAst /\ [][NextAst]_vars

(***************************************************************************)
(* The live-reload server (markerml_cli::web_server).  The file is a       *)
(* version number and whether that version compiles; a message is what     *)
(* update_code builds from it.  Channels are sequences, oldest first.      *)
(***************************************************************************)
MaxChanges == 2

\* common::parse_file: the html of the file, or the error "Compilation error"
parse_file(f) ==
    IF f.valid THEN [ok |-> TRUE, code |-> f.version] ELSE [ok |-> FALSE, code |-> 0]

\* the match in update_code: CodeUpdateMessage::Code or CodeUpdateMessage::Error
update_message(r) ==
    IF r.ok THEN [kind |-> "Code", code |-> r.code] ELSE [kind |-> "Error", code |-> 0]

\* run_web_server has spawned watch_file; no client has connected
InitServer ==
    /\ file \in [version : {0}, valid : BOOLEAN]
    /\ events = 0
    /\ watch_pc = "update"
    /\ watch_res = Empty
    /\ updates = <<>>
    /\ current = Empty
    /\ socket_pc = [c \in Clients |-> "closed"]
    /\ received = [c \in Clients |-> <<>>]
    /\ PipelineIdle /\ SpanIdle

\* the file is written: the watcher's callback sends () on watch_file's channel
ModifyFile ==
    /\ file.version < MaxChanges
    /\ \E valid \in BOOLEAN : file' = [version |-> file.version + 1, valid |-> valid]
    /\ events' = events + 1
    /\ UNCHANGED <<watch_pc, watch_res, updates, current, socket_pc, received>>
    /\ UNCHANGED <<pipelinevars, spanvars>>

\* update_code up to updates.send(res.clone()).await
UpdateCodeSend ==
    /\ watch_pc = "update"
    /\ \E res \in {update_message(parse_file(file))} :
           /\ updates' = Append(updates, res)
           /\ watch_res' = res
    /\ watch_pc' = "store"
    /\ UNCHANGED <<file, events, current, socket_pc, received>>
    /\ UNCHANGED <<pipelinevars, spanvars>>

\* update_code: page.store(res)
UpdateCodeStore ==
    /\ watch_pc = "store"
    /\ current' = watch_res
    /\ watch_pc' = "recv"
    /\ UNCHANGED <<file, events, watch_res, updates, socket_pc, received>>
    /\ UNCHANGED <<pipelinevars, spanvars>>

\* the loop of watch_file: rx.recv().await
WatchRecv ==
    /\ watch_pc = "recv"
    /\ events > 0
    /\ events' = events - 1
    /\ watch_pc' = "update"
    /\ UNCHANGED <<file, watch_res, updates, current, socket_pc, received>>
    /\ UNCHANGED <<pipelinevars, spanvars>>

\* listen and the first block of handle_socket: the current message is sent
SocketOpen(c) ==
    /\ socket_pc[c] = "closed"
    /\ received' = [received EXCEPT ![c] = <<current>>]
    /\ socket_pc' = [socket_pc EXCEPT ![c] = "recv"]
    /\ UNCHANGED <<file, events, watch_pc, watch_res, updates, current>>
    /\ UNCHANGED <<pipelinevars, spanvars>>

\* one iteration of the while let of handle_socket: the receiver takes the
\* oldest message off the channel
SocketRecv(c) ==
    /\ socket_pc[c] = "recv"
    /\ updates # <<>>
    /\ received' = [received EXCEPT ![c] = Append(received[c], Head(updates))]
    /\ updates' = Tail(updates)
    /\ UNCHANGED <<file, events, watch_pc, watch_res, current, socket_pc>>
    /\ UNCHANGED <<pipelinevars, spanvars>>

NextServer ==
    \/ ModifyFile
    \/ UpdateCodeSend
    \/ UpdateCodeStore
    \/ WatchRecv
    \/ \E c \in Clients : SocketOpen(c)
    \/ \E c \in Clients : SocketRecv(c)

SpecServer == InitServer /\ [][NextServer]_vars

(***************************************************************************)
(* Reference notions of the claims, read off the source text alone.        *)
(***************************************************************************)
IsLiteralToken(tok) == tok.kind \in {"StringLiteral", "Text"}

Closer(open) == IF open = "(" THEN ")" ELSE "\""

RECURSIVE LiteralEnd(_, _, _)
RECURSIVE InterpolationEnd(_, _)

\* index just after the terminator of the literal whose body starts at k,
\* 0 when the source ends first
LiteralEnd(code, k, delimiter) ==
    IF k > Len(code) THEN 0
    ELSE IF code[k] = delimiter THEN k + 1
    ELSE IF code[k] = "$" /\ k < Len(code) /\ code[k + 1] = "{"
    THEN LET j == InterpolationEnd(code, k + 2)
         IN  IF j = 0 THEN 0 ELSE LiteralEnd(code, j, delimiter)
    ELSE LiteralEnd(code, k + 1, delimiter)

\* index just after the `}` of the interpolation whose body starts at k,
\* 0 when the source ends first
InterpolationEnd(code, k) ==
    IF k > Len(code) THEN 0
    ELSE IF code[k] = "}" THEN k + 1
    ELSE IF code[k] \in {"\"", "("}
    THEN LET j == LiteralEnd(code, k + 1, Closer(code[k]))
         IN  IF j = 0 THEN 0 ELSE InterpolationEnd(code, j)
    ELSE InterpolationEnd(code, k + 1)

\* every literal and every interpolation of code[k..] is terminated
RECURSIVE Terminated(_, _)
Terminated(code, k) ==
    IF k > Len(code) THEN TRUE
    ELSE IF code[k] \in {"\"", "("}
    THEN LET j == LiteralEnd(code, k + 1, Closer(code[k]))
         IN  j # 0 /\ Terminated(code, j)
    ELSE Terminated(code, k + 1)

\* sources without comment, escape or line-ending characters, where the
\* two notions above are the whole story
PlainSource == \A k \in 1..Len(src) : src[k] \notin {"/", "\\", "\n", "\r"}

LexDone == chars = <<>>

AllLiteralsClosed == \A k \in 1..Len(tokens) : IsLiteralToken(tokens[k]) => tokens[k].is_closed

\* C1: in a source whose literals and interpolations are all terminated,
\* the iteration that lexes a literal nested inside an interpolation up to
\* its terminator leaves the interpolation mode stack as it found it, and
\* at the end of lexing every literal token has is_closed = true.
C1_NestedLiteralRestoresStack ==
    (PlainSource /\ Terminated(src, 1)) =>
        /\ (/\ phase = "lex" /\ chars # <<>> /\ TopMode = "Interpolation"
            /\ peek(LexerState) \in {"\"", "("}
            /\ lex_iteration(LexerState).ret = "delimiter")
           => lex_iteration(LexerState).s.interpolation_mode = interpolation_mode
        /\ LexDone => AllLiteralsClosed

\* C2: when the source ends before a literal is terminated, the token
\* stream of the finished lexer holds a literal token with is_closed = false.
C2_UnterminatedLiteralFlagged ==
    (PlainSource /\ LexDone /\ ~Terminated(src, 1)) =>
        \E k \in 1..Len(tokens) : IsLiteralToken(tokens[k]) /\ ~tokens[k].is_closed

\* C3: parsing a source with an unterminated literal returns an error, and
\* a successful parse never consumed a literal token with is_closed = false.
C3_UnterminatedLiteralRejected ==
    (PlainSource /\ phase # "lex") =>
        /\ ~Terminated(src, 1) => ~parsed
        /\ parsed => AllLiteralsClosed

\* characters that start no construct of the language
Unrecognised(ch) ==
    /\ ~is_identifier_head(ch) /\ ~is_integer_head(ch)
    /\ ~is_newline(ch) /\ ~is_whitespace_except_newline(ch)
    /\ ch \notin PunctuatorChars \cup {"(", "\"", "/"}

LexIterationConsumes ==
    LexStep =>
        /\ Len(chars') < Len(chars)
        /\ (TopMode \in {"Default", "Interpolation"} /\ Unrecognised(Head(chars)))
           => /\ chars' = Tail(chars)
              /\ Len(tokens') = Len(tokens) + 1
              /\ tokens'[Len(tokens')].kind = "Invalid"
              /\ SubSeq(tokens', 1, Len(tokens)) = tokens

\* C4: every iteration of the main loop of Lexer::lex, in each of its four
\* modes, consumes at least one character (so the loop ends after at most
\* Len(src) iterations), and a character that starts no construct is
\* consumed alone and yields exactly one Invalid token.
C4_LexTerminates == [][LexIterationConsumes]_vars

\* a character that starts no construct gave an Invalid token, and lexing
\* went on to the end of the source and to a later token
C4_Witness ==
    /\ LexDone
    /\ \E k \in 1..(Len(tokens) - 1) :
           /\ tokens[k].kind = "Invalid"
           /\ Unrecognised(src[tok_at[k] + 1])
           /\ tokens[k + 1].kind # "Invalid"

\* what the claim says the content of a literal with this body is
RECURSIVE SkipHorizontal(_)
SkipHorizontal(body) ==
    IF body # <<>> /\ is_whitespace_except_newline(Head(body))
    THEN SkipHorizontal(Tail(body)) ELSE body

AfterLineEnding(body) ==
    IF Len(body) >= 2 /\ body[1] = "\r" /\ body[2] = "\n"
    THEN Tail(Tail(body)) ELSE Tail(body)

RECURSIVE Collapse(_)
Collapse(body) ==
    IF body = <<>> THEN <<>>
    ELSE IF is_newline(Head(body))
    THEN LET rest == SkipHorizontal(AfterLineEnding(body))
         IN  IF rest = <<>> \/ is_newline(Head(rest)) THEN Collapse(rest)
             ELSE <<" ">> \o Collapse(rest)
    ELSE <<Head(body)>> \o Collapse(Tail(body))

\* src is one string literal: a quote, a body without quote, a quote
IsOneStringLiteral ==
    /\ Len(src) >= 2 /\ src[1] = "\"" /\ src[Len(src)] = "\""
    /\ \A k \in 2..(Len(src) - 1) : src[k] \in {"\n", "\r", " ", "a"}

\* C5: the content of a string literal is its body with every line ending
\* and the spaces after it replaced by one space (by nothing before the
\* terminator or another line ending), every other character kept.
C5_LineEndingCollapsed ==
    (LexDone /\ IsOneStringLiteral) =>
        /\ Len(tokens) = 1
        /\ tokens[1].kind = "StringLiteral"
        /\ tokens[1].value = Collapse(SubSeq(src, 2, Len(src) - 1))

\* the position the claim gives to source offset n (0-based)
RECURSIVE PositionAt(_, _, _, _, _)
PositionAt(code, k, n, ln, col) ==
    IF k > n THEN [line |-> ln, column |-> col]
    ELSE IF code[k] = "\r" /\ k < Len(code) /\ code[k + 1] = "\n"
    THEN IF k + 1 > n THEN [line |-> ln, column |-> col + 1]
         ELSE PositionAt(code, k + 2, n, ln + 1, 1)
    ELSE IF is_newline(code[k]) THEN PositionAt(code, k + 1, n, ln + 1, 1)
    ELSE PositionAt(code, k + 1, n, ln, col + 1)

\* C6: every token starts at line 1 + the number of line endings before
\* it and column 1 + the number of characters since the last of them.
C6_TokenStartPosition ==
    \A k \in 1..Len(tokens) :
        tokens[k].span.start = PositionAt(src, 1, tok_at[k], 1, 1)

\* the component whose property list the source is about: the only item,
\* or the only child of the only item
PropsTarget ==
    IF ast.items[1].properties # None THEN ast.items[1]
    ELSE ast.items[1].children[1].children[1]

IsPropsCase ==
    /\ Len(ast.items) = 1 /\ ast.items[1].item = "Component"
    /\ ast.items[1].text = None
    /\ \/ ast.items[1].properties # None /\ ast.items[1].children = None
       \/ /\ ast.items[1].properties = None /\ ast.items[1].children # None
          /\ Len(ast.items[1].children[1].children) = 1
          /\ ast.items[1].children[1].children[1].properties # None
          /\ ast.items[1].children[1].children[1].text = None
          /\ ast.items[1].children[1].children[1].children = None

Min(S) == CHOOSE m \in S : \A n \in S : m <= n

\* C7: generate_properties fails with DuplicatedProperty exactly when two
\* entries of the property list share a name; first is the key span of the
\* earliest entry with that name, second the key span of the first later
\* entry that collides, and no IR item is produced.
C7_DuplicatedPropertyIff ==
    (phase = "ast" /\ IsPropsCase /\ g_idx > 1) =>
        LET es == PropsTarget.properties[1].properties
            Collides(j) == \E i \in 1..(j - 1) : es[i].key.name = es[j].key.name
            Js == {j \in 1..Len(es) : Collides(j)}
        IN  IF Js = {} THEN g_result = None /\ Len(g_items) = 1
            ELSE LET j == Min(Js)
                     i == Min({h \in 1..(j - 1) : es[h].key.name = es[j].key.name})
                 IN  /\ g_result = Some([kind |-> "DuplicatedProperty",
                                         name |-> es[j].key.name,
                                         first |-> es[i].key.span,
                                         second |-> es[j].key.span])
                     /\ g_items = <<>>

\* a flag and a named property of the same name, the later of them third
\* in the list, made generate_properties fail
C7_Witness ==
    /\ phase = "ast" /\ IsPropsCase /\ g_result # None
    /\ g_result[1].kind = "DuplicatedProperty"
    /\ LET es == PropsTarget.properties[1].properties
       IN  /\ Len(es) = 3
           /\ es[3].key.span = g_result[1].second
           /\ \E i \in 1..2 : es[i].key.span = g_result[1].first /\ es[i].kind # es[3].kind

HasDuplicatedName(c) ==
    /\ c.properties # None
    /\ LET es == c.properties[1].properties
       IN  \E i, j \in 1..Len(es) : i < j /\ es[i].key.name = es[j].key.name

RECURSIVE BadComponent(_)
BadComponent(c) ==
    \/ c.text # None /\ c.children # None
    \/ HasDuplicatedName(c)
    \/ /\ c.children # None
       /\ \E k \in 1..Len(c.children[1].children) : BadComponent(c.children[1].children[k])

BadItem(it) ==
    IF it.item = "Component" THEN BadComponent(it)
    ELSE /\ it.children # None
         /\ \E k \in 1..Len(it.children[1].children) : BadComponent(it.children[1].children[k])

ValidateDone == v_result # None \/ v_idx > Len(ast.items)

\* C8: Validator::validate returns an error whenever some component of the
\* module, at any depth, has both text and children or a repeated property
\* name.
C8_ValidatorReachesEveryComponent ==
    (phase = "ast" /\ ValidateDone /\ \E k \in 1..Len(ast.items) : BadItem(ast.items[k]))
        => v_result # None

Enclosed(open, close) == {<<open>> \o inner \o <<close>> : inner \in {<<>>, <<"a">>}}

TextFirstSources == {<<"a">> \o t \o c : t \in Enclosed("(", ")"), c \in Enclosed("{", "}")}

ChildrenFirstSources == {<<"a">> \o c \o t : t \in Enclosed("(", ")"), c \in Enclosed("{", "}")}

\* C9: a component written with both text and children ends the pipeline
\* with the TextComponentWithChildren error, whether the text or the
\* children come first in the source.
C9_TextWithChildrenEitherOrder ==
    (src \in TextFirstSources \cup ChildrenFirstSources /\ phase \in {"done", "error"})
        => \/ v_result # None /\ v_result[1].kind = "TextComponentWithChildren"
           \/ g_result # None /\ g_result[1].kind = "TextComponentWithChildren"

IsDeclCase ==
    /\ Len(ast.items) = 1 /\ ast.items[1].item = "ComponentDefinition"
    /\ ast.items[1].properties # None

\* C10: a component definition is rejected exactly when its declarations
\* hold two text declarations, two default declarations, two slot-typed
\* named declarations, two slot[]-typed named declarations, a slot and a
\* slot[] named declaration, or a repeated name; the error kind reported
\* is the kind of a condition that holds.
C10_DefinitionRejectedIff ==
    (phase = "ast" /\ IsDeclCase /\ v_idx > 1) =>
        LET ds == ast.items[1].properties[1].properties
            Texts == {k \in 1..Len(ds) : ds[k].kind = "Text"}
            Defaults == {k \in 1..Len(ds) : ds[k].kind = "Default"}
            Slots == {k \in 1..Len(ds) : ds[k].kind = "Named" /\ ds[k].ty[1].kind = "Slot"}
            SlotLists == {k \in 1..Len(ds) :
                             ds[k].kind = "Named" /\ ds[k].ty[1].kind = "SlotList"}
            Holds == [MultipleTextProps |-> Cardinality(Texts) > 1,
                      MultipleDefaultProps |-> Cardinality(Defaults) > 1,
                      MultipleSlotProps |-> Cardinality(Slots) > 1,
                      MultipleSlotListProps |-> Cardinality(SlotLists) > 1,
                      SlotAndSlotListProps |-> Slots # {} /\ SlotLists # {},
                      DuplicatedPropertyName |->
                          \E i, j \in 1..Len(ds) : i < j /\ ds[i].name.name = ds[j].name.name]
        IN  /\ v_result # None <=> \E kind \in DOMAIN Holds : Holds[kind]
            /\ v_result # None =>
                   /\ v_result[1].kind \in DOMAIN Holds
                   /\ Holds[v_result[1].kind]

\* a definition with a slot and a slot[] declaration, and a default
\* declaration of type slot besides, was rejected for the slot/slot[] pair
C10_Witness ==
    /\ phase = "ast" /\ IsDeclCase /\ v_idx > 1
    /\ v_result # None /\ v_result[1].kind = "SlotAndSlotListProps"
    /\ \E k \in 1..Len(ast.items[1].properties[1].properties) :
           LET d == ast.items[1].properties[1].properties[k]
           IN  d.kind = "Default" /\ d.ty[1].kind = "Slot"

IsDefBodyCase ==
    /\ Len(ast.items) = 1 /\ ast.items[1].item = "ComponentDefinition"
    /\ ast.items[1].children # None

DirectSelfReference ==
    \E k \in 1..Len(ast.items[1].children[1].children) :
        ast.items[1].children[1].children[k].name.name = ast.items[1].name.name

RECURSIVE NamedBelow(_, _)
NamedBelow(c, name) ==
    /\ c.children # None
    /\ \E k \in 1..Len(c.children[1].children) :
           \/ c.children[1].children[k].name.name = name
           \/ NamedBelow(c.children[1].children[k], name)

DeeperSelfReference ==
    \E k \in 1..Len(ast.items[1].children[1].children) :
        NamedBelow(ast.items[1].children[1].children[k], ast.items[1].name.name)

\* C11: generate_component_definition fails with CircularDefinition exactly
\* when a direct child of the body has the definition's name; when the name
\* occurs only deeper in the body, lowering of the definition succeeds.
C11_CircularIffDirectChild ==
    (phase = "ast" /\ IsDefBodyCase /\ g_idx > 1) =>
        /\ (g_result # None /\ g_result[1].kind = "CircularDefinition")
              <=> DirectSelfReference
        /\ (DeeperSelfReference /\ ~DirectSelfReference)
              => (g_result = None /\ Len(g_items) = 1)

Decls == ast.items[1].properties[1].properties

DefaultWithValue(d) == d.kind = "Default" /\ d.default_value # None

\* the declarations that generate_properties_definition rejects for a
\* reason other than a default value: a second default or text declaration,
\* or a repeated name
OtherwiseRejected ==
    \/ Cardinality({k \in 1..Len(Decls) : Decls[k].kind = "Default"}) > 1
    \/ Cardinality({k \in 1..Len(Decls) : Decls[k].kind = "Text"}) > 1
    \/ \E i, j \in 1..Len(Decls) : i < j /\ Decls[i].name.name = Decls[j].name.name

\* in the lowered definition, a named declaration keeps its default value
\* and the default declaration has none
ValuesLowered ==
    LET ir == g_items[1].properties
    IN  /\ \A k \in 1..Len(Decls) :
               (Decls[k].kind = "Named" /\ Decls[k].default_value # None) =>
                   \E p \in ir.properties :
                       /\ p.name.name = Decls[k].name.name
                       /\ p.default_value # None
                       /\ p.default_value[1].kind = Decls[k].default_value[1].kind
                       /\ p.default_value[1].payload = Decls[k].default_value[1].payload
        /\ \A k \in 1..Len(Decls) :
               Decls[k].kind = "Default" =>
                   ir.default_property # None /\ ir.default_property[1].default_value = None

\* C12 as stated: every default declaration that supplies a default value
\* makes generate_properties_definition fail with DefaultPropertyWithValue;
\* a named declaration keeps its default value in the IR, and a default
\* declaration without a value is lowered with default_value absent.
C12_DefaultWithValueRejected ==
    (phase = "ast" /\ IsDeclCase /\ g_idx > 1) =>
        /\ (\E k \in 1..Len(Decls) : DefaultWithValue(Decls[k]))
              => (g_result # None /\ g_result[1].kind = "DefaultPropertyWithValue")
        /\ g_result = None => ValuesLowered

\* C12 amended: in a definition with at most one default declaration, at
\* most one text declaration and no repeated name, a default declaration
\* that supplies a default value makes generate_properties_definition fail
\* with DefaultPropertyWithValue, naming the declaration and its value, and
\* a definition without such a declaration is lowered; a named declaration
\* keeps its default value in the IR, and a default declaration without a
\* value is lowered with default_value absent.
C12_DefaultWithValueRejectedFirst ==
    (phase = "ast" /\ IsDeclCase /\ g_idx > 1 /\ ~OtherwiseRejected) =>
        /\ \A k \in 1..Len(Decls) :
               DefaultWithValue(Decls[k]) =>
                   g_result = Some([kind |-> "DefaultPropertyWithValue",
                                    component_name |-> Decls[k].name.span,
                                    property |-> Decls[k].span,
                                    default_value |-> Decls[k].default_value[1].span])
        /\ (\A k \in 1..Len(Decls) : ~DefaultWithValue(Decls[k])) => g_result = None
        /\ g_result = None => ValuesLowered

\* a definition whose second declaration is a default declaration with a
\* value, after a named declaration with a value, was rejected for it
C12_Witness ==
    /\ phase = "ast" /\ IsDeclCase /\ g_idx > 1 /\ ~OtherwiseRejected
    /\ Len(Decls) = 2 /\ DefaultWithValue(Decls[2])
    /\ Decls[1].kind = "Named" /\ Decls[1].default_value # None
    /\ g_result # None /\ g_result[1].kind = "DefaultPropertyWithValue"

\* C13: in a lowered PropertiesDefinition the `properties` set holds
\* exactly the named declarations: the default declaration is only in
\* default_property and the text declaration only in text_property.
C13_NamedSetExcludesDefaultAndText ==
    (phase = "ast" /\ IsDeclCase /\ g_idx > 1 /\ g_result = None) =>
        LET ir == g_items[1].properties
        IN  /\ {p.name.name : p \in ir.properties}
                  = {Decls[k].name.name : k \in {j \in 1..Len(Decls) : Decls[j].kind = "Named"}}
            /\ ir.default_property # None => ir.default_property[1] \notin ir.properties
            /\ ir.text_property # None =>
                   \A p \in ir.properties : p.name.name # ir.text_property[1].name

GenerateDone == g_result # None \/ g_idx > Len(ast.items)

\* C14: an AST module that Validator::validate accepts is lowered by
\* generate_ir without an error.
C14_ValidatedAstLowers ==
    (phase = "ast" /\ ValidateDone /\ GenerateDone /\ v_result = None) => g_result = None

\* the segments of the one literal of a source of InterpSources
LiteralSegments ==
    IF ast.items[1].text # None THEN ast.items[1].text[1].segments
    ELSE ast.items[1].properties[1].default[1].payload

IsInterpolationPiece(piece) == Len(piece) > 1

\* C15: a parsed string or text literal without interpolations has exactly
\* one literal segment, equal to its contents; one with N >= 1
\* interpolations has exactly N Variable segments, in source order, at most
\* N + 1 literal segments, and no empty literal segment.
C15_SegmentsOfLiteral ==
    \A l \in PieceLists :
        (src \in {StringSource(l), TextSource(l)} /\ parsed) =>
            LET IsVariable(seg) == seg.kind = "Variable"
                IsLiteral(seg) == seg.kind = "Literal"
                interpolations == SelectSeq(l, IsInterpolationPiece)
                N == Len(interpolations)
                variables == SelectSeq(LiteralSegments, IsVariable)
                literals == SelectSeq(LiteralSegments, IsLiteral)
            IN  IF N = 0
                THEN /\ Len(LiteralSegments) = 1
                     /\ LiteralSegments[1].kind = "Literal"
                     /\ LiteralSegments[1].payload = Concat(l)
                ELSE /\ Len(variables) = N
                     /\ \A k \in 1..N :
                            variables[k].payload[1].name = <<interpolations[k][3]>>
                     /\ Len(literals) <= N + 1
                     /\ \A k \in 1..Len(literals) : literals[k].payload # <<>>

\* C16: a component name followed by an empty bracket pair parses to a
\* component whose properties are present, with no default value and an
\* empty property list.
C16_EmptyPropertiesParse ==
    (src = <<"a", "[", "]">> /\ phase # "lex") =>
        /\ parsed
        /\ Len(ast.items) = 1
        /\ ast.items[1].properties # None
        /\ ast.items[1].properties[1].default = None
        /\ ast.items[1].properties[1].properties = <<>>

\* C17: a named property whose value is written as the interpolation
\* ${q} parses to a Value of kind Variable holding the identifier q.
C17_InterpolationAsValue ==
    (/\ src \in {NamedPropertySource(<<"$", "{", "q", "}">>) \o tail :
                    tail \in {<<>>, <<" ", "{", "}">>}}
     /\ phase # "lex") =>
        /\ parsed
        /\ Len(ast.items) = 1
        /\ ast.items[1].properties # None
        /\ Len(ast.items[1].properties[1].properties) = 1
        /\ ast.items[1].properties[1].properties[1].kind = "KeyValue"
        /\ ast.items[1].properties[1].properties[1].value[1].kind = "Variable"
        /\ ast.items[1].properties[1].properties[1].value[1].payload[1].name = <<"q">>

IrItemName(it) == IF it.item = "Component" THEN it.component.name ELSE it.name

\* C18: two identifiers with the same name compare equal and hash equal,
\* whatever their spans, in the AST and in the IR.
C18_IdentifierEqualityByName ==
    phase = "ast" =>
        /\ \A i, j \in 1..Len(ast.items) :
               ast.items[i].name.name = ast.items[j].name.name =>
                   /\ ast_identifier_eq(ast.items[i].name, ast.items[j].name)
                   /\ ast_identifier_hash(ast.items[i].name)
                         = ast_identifier_hash(ast.items[j].name)
        /\ \A i, j \in 1..Len(g_items) :
               IrItemName(g_items[i]).name = IrItemName(g_items[j]).name =>
                   /\ ir_identifier_eq(IrItemName(g_items[i]), IrItemName(g_items[j]))
                   /\ ir_identifier_hash(IrItemName(g_items[i]))
                         = ir_identifier_hash(IrItemName(g_items[j]))

SameSegments(segments, lowered) ==
    /\ Len(lowered) = Len(segments)
    /\ \A k \in 1..Len(segments) :
           /\ lowered[k].kind = segments[k].kind
           /\ IF segments[k].kind = "Literal"
              THEN lowered[k].payload = segments[k].payload
              ELSE lowered[k].payload[1].name = segments[k].payload[1].name

SameValue(v, lowered) ==
    /\ lowered.kind = v.kind
    /\ CASE v.kind = "String" -> SameSegments(v.payload, lowered.payload[1].segments)
         [] v.kind = "Variable" -> lowered.payload[1].name = v.payload[1].name
         [] OTHER -> lowered.payload = v.payload

SameOptionalValue(v, lowered) ==
    IF v = None THEN lowered = None ELSE lowered # None /\ SameValue(v[1], lowered[1])

SameProperties(props, lowered) ==
    LET es == props.properties
        Flags == {k \in 1..Len(es) : es[k].kind = "Flag"}
        KeyValues == {k \in 1..Len(es) : es[k].kind = "KeyValue"}
    IN  /\ SameOptionalValue(props.default, lowered.default)
        /\ {f.name : f \in lowered.flag_properties} = {es[k].key.name : k \in Flags}
        /\ Cardinality(lowered.flag_properties) = Cardinality(Flags)
        /\ Cardinality(lowered.named_properties) = Cardinality(KeyValues)
        /\ \A k \in KeyValues :
               \E p \in lowered.named_properties :
                   p.key.name = es[k].key.name /\ SameValue(es[k].value[1], p.value)

RECURSIVE SameComponent(_, _)
SameComponent(c, lowered) ==
    /\ lowered.name.name = c.name.name
    /\ IF c.properties = None
       THEN /\ lowered.properties.default = None
            /\ lowered.properties.flag_properties = {}
            /\ lowered.properties.named_properties = {}
       ELSE SameProperties(c.properties[1], lowered.properties)
    /\ IF c.children = None THEN lowered.children = <<>>
       ELSE /\ Len(lowered.children) = Len(c.children[1].children)
            /\ \A k \in 1..Len(lowered.children) :
                   SameComponent(c.children[1].children[k], lowered.children[k])
    /\ IF c.text = None THEN lowered.text = None
       ELSE lowered.text # None /\ SameSegments(c.text[1].segments, lowered.text[1].segments)

SameItem(it, lowered) ==
    /\ lowered.item = it.item
    /\ IF it.item = "Component" THEN SameComponent(it, lowered.component)
       ELSE /\ lowered.name.name = it.name.name
            /\ IF it.children = None THEN lowered.children = <<>>
               ELSE /\ Len(lowered.children) = Len(it.children[1].children)
                    /\ \A k \in 1..Len(lowered.children) :
                           SameComponent(it.children[1].children[k], lowered.children[k])

\* C19: when generate_ir accepts an AST, the IR has the module items and
\* the children at every depth in the same number and order, with the same
\* names, default values, property values and text segments; a component
\* without properties, children or text gets empty property sets and no
\* default, an empty children list and no text.
C19_LoweringKeepsStructure ==
    (phase = "ast" /\ g_result = None) =>
        /\ Len(g_items) = g_idx - 1
        /\ \A k \in 1..Len(g_items) : SameItem(ast.items[k], g_items[k])

\* a definition whose body holds two components, the first of them with
\* text and the second without, was lowered
C19_Witness ==
    /\ phase = "ast" /\ GenerateDone /\ g_result = None
    /\ Len(g_items) = 1 /\ g_items[1].item = "ComponentDefinition"
    /\ Len(g_items[1].children) = 2
    /\ g_items[1].children[1].text # None
    /\ g_items[1].children[2].text = None

ColumnSpan(from, to) ==
    [start |-> [line |-> 1, column |-> from], end |-> [line |-> 1, column |-> to]]

Second(S) == Min(S \ {Min(S)})

Later(a, b) == IF a < b THEN b ELSE a

\* for each kind of violation present among the declarations ds, the
\* position of the declaration that completes it: the second text, default,
\* slot or slot[] declaration, the later of the first slot and the first
\* slot[] declaration, the first declaration that repeats a name
OffendingPosition(ds) ==
    LET Texts == {k \in 1..Len(ds) : ds[k].kind = "Text"}
        Defaults == {k \in 1..Len(ds) : ds[k].kind = "Default"}
        Slots == {k \in 1..Len(ds) : ds[k].kind = "Named" /\ ds[k].ty[1].kind = "Slot"}
        SlotLists == {k \in 1..Len(ds) :
                         ds[k].kind = "Named" /\ ds[k].ty[1].kind = "SlotList"}
        Repeats == {j \in 1..Len(ds) : \E h \in 1..(j - 1) : ds[h].name.name = ds[j].name.name}
    IN  [kind \in {"MultipleTextProps", "MultipleDefaultProps", "MultipleSlotProps",
                   "MultipleSlotListProps", "SlotAndSlotListProps",
                   "DuplicatedPropertyName"} |->
            CASE kind = "MultipleTextProps" ->
                    IF Cardinality(Texts) > 1 THEN Second(Texts) ELSE 0
              [] kind = "MultipleDefaultProps" ->
                    IF Cardinality(Defaults) > 1 THEN Second(Defaults) ELSE 0
              [] kind = "MultipleSlotProps" ->
                    IF Cardinality(Slots) > 1 THEN Second(Slots) ELSE 0
              [] kind = "MultipleSlotListProps" ->
                    IF Cardinality(SlotLists) > 1 THEN Second(SlotLists) ELSE 0
              [] kind = "SlotAndSlotListProps" ->
                    IF Slots # {} /\ SlotLists # {}
                    THEN Later(Min(Slots), Min(SlotLists)) ELSE 0
              [] OTHER -> IF Repeats # {} THEN Min(Repeats) ELSE 0]

\* the item itself breaks a rule of the validator
ItemViolates(it) ==
    IF it.item = "Component" THEN (it.text # None /\ it.children # None) \/ HasDuplicatedName(it)
    ELSE /\ it.properties # None
         /\ \E kind \in DOMAIN OffendingPosition(it.properties[1].properties) :
                OffendingPosition(it.properties[1].properties)[kind] > 0

\* C21: Validator::validate reports a violation of the first module item
\* that has one, and within one component definition the violation whose
\* offending declaration comes first in declaration order.
C21_FirstViolationReported ==
    (phase = "ast" /\ v_result # None) =>
        /\ v_idx - 1 = Min({k \in 1..Len(ast.items) : ItemViolates(ast.items[k])})
        /\ IsDeclCase =>
               LET at == OffendingPosition(Decls)
               IN  /\ at[v_result[1].kind] > 0
                   /\ \A kind \in DOMAIN at :
                          at[kind] > 0 => at[v_result[1].kind] <= at[kind]

\* the pieces before the first interpolation of l
BeforeFirstInterpolation(l) ==
    SubSeq(l, 1, Min({m \in 1..Len(l) : IsInterpolationPiece(l[m])}) - 1)

\* C22: when a literal is interrupted by ${, the span of the literal
\* segment token ends before the $, the Dollar token spans exactly the $
\* and the LeftCurlyBracket token exactly the {.
C22_InterpolationStartSpans ==
    \A l \in PieceLists :
        (\E m \in 1..Len(l) : IsInterpolationPiece(l[m])) =>
            LET \* index of the literal token and column of its first character
                i == IF src = StringSource(l) THEN 3 ELSE 2
                dollar == i + 1 + Len(Concat(BeforeFirstInterpolation(l)))
            IN  (src \in {StringSource(l), TextSource(l)} /\ Len(tokens) >= i + 2) =>
                    /\ tokens[i].span.end = [line |-> 1, column |-> dollar]
                    /\ tokens[i + 1].span = ColumnSpan(dollar, dollar + 1)
                    /\ tokens[i + 2].span = ColumnSpan(dollar + 1, dollar + 2)

\* what a piece of an escape source adds to the content of a literal that
\* ends with term
Unescaped(piece, term) ==
    IF Len(piece) = 2 /\ piece[2] \in {"$", term} THEN <<piece[2]>> ELSE piece

RECURSIVE UnescapedAll(_, _)
UnescapedAll(l, term) ==
    IF l = <<>> THEN <<>> ELSE Unescaped(l[1], term) \o UnescapedAll(Tail(l), term)

\* C23: inside a literal a backslash before $ or before the terminator
\* adds that character to the content, opens no interpolation and does not
\* end the literal; a backslash before another character stays a backslash
\* and the character after it is processed as usual.
C23_BackslashEscapes ==
    \A term \in Terminators :
        \A l \in EscapeLists("\"") \cup EscapeLists(")") :
            (src = EscapeSource(term, l) /\ chars = <<>>) =>
                /\ Len(tokens) = 1
                /\ tokens[1].kind = IF term = ")" THEN "Text" ELSE "StringLiteral"
                /\ tokens[1].is_closed
                /\ tokens[1].value = UnescapedAll(l, term)
                /\ interpolation_mode = <<>>

\* a string literal holding an escaped $ before a brace and an escaped
\* quote was lexed to its end
C23_Witness ==
    /\ src = EscapeSource("\"", <<<<"\\", "$">>, <<"{">>, <<"\\", "\"">>>>)
    /\ chars = <<>>
    /\ Len(tokens) = 1
    /\ tokens[1].value = <<"$", "{", "\"">>

\* the span of the first } or line ending of rest, the text that follows
\* the // of a comment opened at column 5 of line 1: a } is a token of its
\* own there, a line ending is followed by the } at the start of line 2
ClosingBraceSpan(rest) ==
    LET j == Min({k \in 1..Len(rest) : rest[k] \in {"}", "\n"}})
    IN  IF rest[j] = "}" THEN ColumnSpan(6 + j, 7 + j)
        ELSE [start |-> [line |-> 2, column |-> 1], end |-> [line |-> 2, column |-> 2]]

\* C24: a // comment adds no token and changes no mode; at top level it
\* ends at the line ending, inside an interpolation at the first } when
\* that comes first, and that } closes the interpolation.
C24_CommentSkipped ==
    \A body \in CommentBodies :
        /\ \A tail \in CommentTails :
               src = CommentSource(body, tail) =>
                   /\ interpolation_mode = <<>>
                   /\ tokens # <<>> =>
                          /\ chars = <<>> /\ tail # <<>>
                          /\ Len(tokens) = 1
                          /\ tokens[1].kind = "Identifier"
                          /\ tokens[1].span.start = [line |-> 2, column |-> 1]
                   /\ (chars = <<>> /\ tail # <<>>) => tokens # <<>>
        /\ \A tail \in InterpolationCommentTails :
               src = InterpolationCommentSource(body, tail) =>
                   /\ Len(tokens) >= 4 =>
                          /\ tokens[1].kind = "StringLiteral"
                          /\ tokens[2].value = <<"Dollar">>
                          /\ tokens[3].value = <<"LeftCurlyBracket">>
                          /\ tokens[4].kind = "Identifier"
                   /\ Len(tokens) = 4 =>
                          interpolation_mode = <<Mode("Interpolation", "String")>>
                   /\ Len(tokens) >= 5 =>
                          /\ tokens[5].kind = "Punctuator"
                          /\ tokens[5].value = <<"RightCurlyBracket">>
                          /\ tokens[5].span = ClosingBraceSpan(body \o tail)
                   /\ Len(tokens) = 5 =>
                          interpolation_mode = <<Mode("Literal", "String")>>
                   /\ chars = <<>> => Len(tokens) >= 5

\* a comment holding ${ inside an interpolation was skipped, and the } after
\* it closed the interpolation and the quote after that the string
C24_Witness ==
    /\ src = InterpolationCommentSource(<<"$", "{">>, <<"}", "\"">>)
    /\ chars = <<>>
    /\ Len(tokens) = 6
    /\ tokens[5].value = <<"RightCurlyBracket">>
    /\ tokens[6].kind = "StringLiteral" /\ tokens[6].is_closed
    /\ interpolation_mode = <<>>

\* the number of named properties that rest adds after the first item
NamedInRest(rest) == IF rest \in {<<",", "q">>, <<",", "q", "=", "2">>} THEN 1 ELSE 0

\* C25: a first item that is an identifier is a named property (a Flag when
\* no = follows) and the list has no default value; a first item that is
\* an integer, a boolean or a string is the default value, optionally
\* followed by a comma and named properties.
C25_NamedListBeforeDefault ==
    \A first \in FirstItems : \A rest \in ItemRests :
        (src = FirstItemSource(first, rest) /\ phase # "lex") =>
            /\ parsed <=> /\ rest # <<" ", "q">>
                          /\ ~(first \in DefaultItems /\ rest = <<",">>)
            /\ parsed =>
                   /\ Len(ast.items) = 1
                   /\ ast.items[1].properties # None
                   /\ LET ps == ast.items[1].properties[1]
                      IN  IF first \in DefaultItems
                          THEN /\ ps.default # None
                               /\ ps.default[1].kind =
                                      (IF first = <<"1">> THEN "Integer"
                                       ELSE IF first = <<"t", "r", "u", "e">> THEN "Bool"
                                       ELSE "String")
                               /\ Len(ps.properties) = NamedInRest(rest)
                          ELSE /\ ps.default = None
                               /\ Len(ps.properties) = 1 + NamedInRest(rest)
                               /\ ps.properties[1].key.name = <<"x">>
                               /\ ps.properties[1].kind =
                                      (IF first = FlagItem THEN "Flag" ELSE "KeyValue")
                               /\ first = FlagItem => ps.properties[1].value = None

\* a[x,q] was parsed: x is a flag, not the default value
C25_Witness ==
    /\ src = FirstItemSource(FlagItem, <<",", "q">>)
    /\ phase # "lex" /\ parsed
    /\ ast.items[1].properties[1].default = None
    /\ ast.items[1].properties[1].properties[1].kind = "Flag"
    /\ Len(ast.items[1].properties[1].properties) = 2

\* the names of the properties of a lowered component
LoweredNames(lowered) ==
    {f.name : f \in lowered.flag_properties}
      \cup {p.key.name : p \in lowered.named_properties}

RECURSIVE UniqueProperties(_, _)
\* the lowered component of c, and every component below it, has as many
\* properties as c lists, no two of them with one name
UniqueProperties(c, lowered) ==
    /\ Cardinality(lowered.properties.flag_properties)
         + Cardinality(lowered.properties.named_properties)
           = (IF c.properties = None THEN 0 ELSE Len(c.properties[1].properties))
    /\ Cardinality(LoweredNames(lowered.properties))
           = (IF c.properties = None THEN 0 ELSE Len(c.properties[1].properties))
    /\ \A f \in lowered.properties.flag_properties :
           \A p \in lowered.properties.named_properties : f.name # p.key.name
    /\ \A k \in 1..Len(lowered.children) :
           UniqueProperties(c.children[1].children[k], lowered.children[k])

UniqueDeclarations(lowered) ==
    Cardinality({d.name.name : d \in lowered.properties.properties})
        = Cardinality(lowered.properties.properties)

\* C26: in the IR no two properties of a component share a name, flags and
\* named properties together are as many as the AST lists, and no two
\* declarations in the set of a definition share a name.
C26_NamesUniqueInIr ==
    \A k \in 1..Len(g_items) :
        IF g_items[k].item = "Component"
        THEN UniqueProperties(ast.items[k], g_items[k].component)
        ELSE /\ UniqueDeclarations(g_items[k])
             /\ \A j \in 1..Len(g_items[k].children) :
                    UniqueProperties(ast.items[k].children[1].children[j],
                                     g_items[k].children[j])

\* a component that lists a flag and a named property was lowered
C26_Witness ==
    \E k \in 1..Len(g_items) :
        /\ g_items[k].item = "Component"
        /\ ast.items[k].properties # None
        /\ Len(ast.items[k].properties[1].properties) = 2
        /\ Cardinality(g_items[k].component.properties.flag_properties) = 1
        /\ Cardinality(g_items[k].component.properties.named_properties) = 1

\* the line-then-column order of positions
Before(p, q) == p.line < q.line \/ (p.line = q.line /\ p.column <= q.column)

\* C27: the union of spans starts at the least start and ends at the
\* greatest end in line-then-column order; it is commutative, associative
\* and idempotent, and a |= b leaves in a the value of a | b.
C27_SpanUnion ==
    Len(folded) = 2 =>
        LET a == folded[1]
            b == folded[2]
        IN  /\ union.start \in {a.start, b.start}
            /\ Before(union.start, a.start) /\ Before(union.start, b.start)
            /\ union.end \in {a.end, b.end}
            /\ Before(a.end, union.end) /\ Before(b.end, union.end)
            /\ span_acc = union
            /\ bitor(b, a) = union
            /\ bitor(a, a) = a
            /\ \A c \in Spans : bitor(union, c) = bitor(a, bitor(b, c))

\* a span of line 2 was folded into a span of line 1 that starts at a later
\* column
C27_Witness ==
    /\ Len(folded) = 2
    /\ folded[1].start = [line |-> 1, column |-> 2]
    /\ folded[2].start = [line |-> 2, column |-> 1]
    /\ span_acc.start = [line |-> 1, column |-> 2]
    /\ span_acc.end.line = 2

\* C28: the component_name of MultipleDefaultProperties, MultipleTextProperties
\* and DefaultPropertyWithValue is the span of the name of the definition
\* that holds the declaration.
C28_ComponentNameOfDefinition ==
    (/\ g_result # None
     /\ g_result[1].kind \in {"MultipleDefaultProperties", "MultipleTextProperties",
                               "DefaultPropertyWithValue"})
        => g_result[1].component_name = ast.items[g_idx - 1].name.span

RejectedByBoth ==
    {"DuplicatedPropertyName", "TextComponentWithChildren", "MultipleTextProps",
     "MultipleDefaultProps"}

\* C29: when the validator rejects an item for a repeated property name, a
\* text with children, or a second text or default declaration, lowering
\* has returned an error once it has gone through that item.
C29_LoweringRejectsToo ==
    (/\ v_result # None
     /\ v_result[1].kind \in RejectedByBoth
     /\ g_idx >= v_idx)
        => g_result # None

\* both the validator and lowering rejected a definition with two text
\* declarations
C29_Witness ==
    /\ v_result # None /\ v_result[1].kind = "MultipleTextProps"
    /\ g_result # None /\ g_result[1].kind = "MultipleTextProperties"

\* no change of the file is left to handle and no message is left to receive
ServerAtRest == watch_pc = "recv" /\ events = 0 /\ updates = <<>>

\* C30: once the changes have stopped and nothing is left to receive, the
\* last message on the socket of every connected client is the result of
\* compiling the file as it is.
C30_EveryClientHasLatest ==
    ServerAtRest =>
        \A c \in Clients :
            socket_pc[c] = "recv" =>
                Last(received[c]) = update_message(parse_file(file))

====
